---- MODULE Spec2Model ----
(***************************************************************************)
(* Model of the scan orchestration of parliamentary_scanner:               *)
(*   - run admission (routers/scans.py, services/scanner.py run_scan,      *)
(*     services/scheduler.py _execute_scan_alert), specification Spec;     *)
(*   - the pipeline of one run (services/scanner.py _run_scan_inner and    *)
(*     _run_member_topic_scan, services/classifier.py classify),           *)
(*     specification ScanSpec.                                             *)
(***************************************************************************)
EXTENDS Integers, Sequences, FiniteSets, TLC

\* ------------------------------------------------------------------ bounds
MaxRequests == 3
MaxAlerts == 1
MaxKeywords == 2
MaxIds == 2
MaxResults == 2
MaxStoreScans == 2
MaxPersists == 4
MaxCallers == 3
MaxHosts == 2
MaxFetches == 3
MaxSources == 3
MaxPages == 2
MaxWords == 8
MaxDigits == 2
MaxMembers == 2

\* ------------------------------------------------------- program constants
MAX_CONCURRENT_SCANS == 2
KEYWORD_PARALLELISM == 12
CLASSIFIER_CONCURRENCY == 10
max_retry_rounds == 4
max_retries == 3
HOST_CONCURRENCY == 2

VARIABLES
    active_scans,          \* scanner._active_scans
    on_scan_complete_cb,   \* scanner._on_scan_complete_cb is set (not None)
    run_scan_fn,           \* scans._run_scan_fn is set (not None)
    status,                \* scans table: scan id -> status column ("none": no row)
    req,                   \* start_scan handlers: position and scan id
    alert,                 \* _execute_scan_alert invocations: position and scan id
    scan_lock,             \* scheduler._scan_lock: 0 free, else the holding alert
    tasks,                 \* scan id -> the run_scan coroutines created for it
    queued_order,          \* history: scan ids in the order they were marked queued
    active_scan_events,    \* routers.scans.active_scan_events: the scan ids that have an entry
    event_set,             \* scan id -> the asyncio.Event created for it is set
    cancel_call,           \* one cancel_scan call: position, scan id, the event it found
    cancelled_queued       \* history: the scans whose cancellation was accepted while queued

cancVars == <<active_scan_events, event_set, cancel_call, cancelled_queued>>

admVars == <<active_scans, on_scan_complete_cb, run_scan_fn, status,
             req, alert, scan_lock, tasks, queued_order, cancVars>>

VARIABLES
    cfg,            \* the run's inputs: scan mode, CLASSIFIER_STAGGER > 0, procedural texts
    cancel_event,   \* the run's asyncio.Event
    cancel_pc,      \* position of the cancel_scan handler called for the run
    kw,             \* keyword -> its _search_keyword coroutine: position, results, new_procedural
    reg,            \* state shared under progress_lock: seen, queue, counters, the lock
    consumer_pc,    \* position of _classification_consumer
    ctasks,         \* the _classify_one tasks, in creation order
    cls,            \* classifier state: api_paused, api_failed, counters
    main,           \* the run's own coroutine: position and the retry-loop locals
    store,          \* results and audit_log rows and the status column of this run
    hist            \* history: backoff waits slept, classifier calls started, failures,
                    \* the classifier's last decision on each item, whether a check
                    \* point of the run has seen the cancellation token set

scanVars == <<cfg, cancel_event, cancel_pc, kw, reg, consumer_pc, ctasks, cls, main, store, hist>>

cancelVars == <<cancel_event, cancel_pc>>

VARIABLES
    results_table,  \* the results table: its rows in insertion order
    writer,         \* the insert_result calls in progress: position and arguments
    persists        \* history: the number of insert_result calls that have returned

storeVars == <<results_table, writer, persists>>

VARIABLES
    host_semaphores, \* ParliamentAPIClient._host_semaphores: host -> its semaphore (0: none)
    sems,            \* the asyncio.Semaphore objects created, in creation order
    get,             \* the _get calls: position, host, semaphore held, attempt, result,
                     \* and (history) the requests sent and the answers seen
    fetches          \* history: the number of _get calls made

fetchVars == <<host_semaphores, sems, get, fetches>>

VARIABLES
    sa,              \* one search_all / fetch_member_all call: position, sources, token, results
    src              \* its per-source tasks (_search_one / _fetch_one)

searchVars == <<sa, src>>

VARIABLES
    proc,            \* one is_procedural call: its arguments and its result
    call             \* one classify call: the API's answers and how the call ends

vars == <<admVars, scanVars, storeVars, fetchVars, searchVars, proc, call>>

\* what the actions of one component leave alone: the other components' state
admFrame == <<scanVars, storeVars, fetchVars, searchVars, proc, call>>
scanFrame == <<admVars, storeVars, fetchVars, searchVars, proc, call>>
storeFrame == <<admVars, scanVars, fetchVars, searchVars, proc, call>>
fetchFrame == <<admVars, scanVars, storeVars, searchVars, proc, call>>
searchFrame == <<admVars, scanVars, storeVars, fetchVars, proc, call>>
procFrame == <<admVars, scanVars, storeVars, fetchVars, searchVars, call>>
callFrame == <<admVars, scanVars, storeVars, fetchVars, searchVars, proc>>

Requests == 1..MaxRequests
Alerts == 1..MaxAlerts
ScanIds == 1..(MaxRequests + MaxAlerts)

TerminalStatus == {"completed", "cancelled", "error"}

\* scanner.get_active_scan_count
get_active_scan_count == active_scans

\* (mutation) the id of the newest row is handed out again
next_id_Reused ==
    IF \A s \in ScanIds : status[s] = "none" THEN 1
    ELSE Cardinality({s \in ScanIds : status[s] # "none"})

\* The scans table's AUTOINCREMENT id: one more than the number of rows.
next_id == Cardinality({s \in ScanIds : status[s] # "none"}) + 1

\* ------------------------------------------------------------------- Init
\* State after main.startup: the scan runner is registered; nothing in the
\* repository calls register_scan_complete_callback, so the callback is None.
startup ==
    /\ run_scan_fn = TRUE
    /\ on_scan_complete_cb = FALSE

AdmInit ==
    /\ active_scans = 0
    /\ startup
    /\ status = [s \in ScanIds |-> "none"]
    /\ req = [r \in Requests |-> [pc |-> "idle", scan |-> 0]]
    /\ alert = [a \in Alerts |-> [pc |-> "idle", scan |-> 0]]
    /\ scan_lock = 0
    /\ tasks = [s \in ScanIds |-> <<>>]
    /\ queued_order = <<>>
    /\ active_scan_events = {}
    /\ event_set = [s \in ScanIds |-> FALSE]
    /\ cancel_call = [pc |-> "idle", scan |-> 0, event |-> FALSE, queued |-> FALSE]
    /\ cancelled_queued = {}

\* ------------------------------------------------------------- start_scan
\* database.create_scan: a new row, status column defaults to 'pending'.
\* Requests are numbered in their order of arrival.
create_scan(r) ==
    /\ req[r].pc = "idle"
    /\ r > 1 => req[r - 1].pc # "idle"
    /\ status' = [status EXCEPT ![next_id] = "pending"]
    /\ req' = [req EXCEPT ![r] = [pc |-> "created", scan |-> next_id]]
    /\ UNCHANGED <<admFrame, cancVars, active_scans, on_scan_complete_cb, run_scan_fn, alert,
                   scan_lock, tasks, queued_order>>

\* start_scan line 58-59: the first read of the counter; marks the run queued.
MarkQueuedCond(n) == n >= MAX_CONCURRENT_SCANS

start_scan_check(r) ==
    /\ req[r].pc = "created"
    /\ LET s == req[r].scan IN
       IF MarkQueuedCond(get_active_scan_count)
       THEN /\ status' = [status EXCEPT ![s] = "queued"]
            /\ queued_order' = Append(queued_order, s)
       ELSE UNCHANGED <<status, queued_order>>
    /\ req' = [req EXCEPT ![r].pc = "closing"]
    /\ UNCHANGED <<admFrame, cancVars, active_scans, on_scan_complete_cb, run_scan_fn, alert,
                   scan_lock, tasks>>

\* start_scan line 63-69, after db.close(): a new event is registered for the
\* run, then the second read of the counter;
\* asyncio.create_task(_run_scan_fn(...)) only schedules the coroutine.
LaunchCond(n) == n < MAX_CONCURRENT_SCANS /\ run_scan_fn

start_scan_launch(r) ==
    /\ req[r].pc = "closing"
    /\ LET s == req[r].scan IN
       /\ active_scan_events' = active_scan_events \cup {s}
       /\ event_set' = [event_set EXCEPT ![s] = FALSE]
       /\ IF LaunchCond(get_active_scan_count)
          THEN tasks' = [tasks EXCEPT ![s] = Append(@, [pc |-> "launched", via |-> "start"])]
          ELSE UNCHANGED tasks
    /\ req' = [req EXCEPT ![r].pc = "done"]
    /\ UNCHANGED <<admFrame, active_scans, on_scan_complete_cb, run_scan_fn, status,
                   alert, scan_lock, queued_order, cancel_call, cancelled_queued>>

\* ---------------------------------------------------- _execute_scan_alert
\* line 112: create_scan; the alerts are numbered in their order of firing.
alert_create_scan(a) ==
    /\ alert[a].pc = "idle"
    /\ a > 1 => alert[a - 1].pc # "idle"
    /\ status' = [status EXCEPT ![next_id] = "pending"]
    /\ alert' = [alert EXCEPT ![a] = [pc |-> "created", scan |-> next_id]]
    /\ UNCHANGED <<admFrame, cancVars, active_scans, on_scan_complete_cb, run_scan_fn, req,
                   scan_lock, tasks, queued_order>>

\* line 121-124: async with _scan_lock: await run_scan(...) -- the coroutine is
\* awaited directly, so it is entered (counter incremented) once the lock is held.
alert_run_scan(a) ==
    /\ alert[a].pc = "created"
    /\ scan_lock = 0
    /\ scan_lock' = a
    /\ active_scans' = active_scans + 1
    /\ tasks' = [tasks EXCEPT ![alert[a].scan] = Append(@, [pc |-> "entered", via |-> "alert"])]
    /\ alert' = [alert EXCEPT ![a].pc = "running"]
    /\ UNCHANGED <<admFrame, cancVars, on_scan_complete_cb, run_scan_fn, status, req, queued_order>>

\* ---------------------------------------------------------------- run_scan
TaskIds == {<<s, i>> \in ScanIds \X (1..2) : i <= Len(tasks[s])}

\* run_scan line 70-72: the task starts running: _active_scans += 1
run_scan_enter(s, i) ==
    /\ tasks[s][i].pc = "launched"
    /\ active_scans' = active_scans + 1
    /\ tasks' = [tasks EXCEPT ![s][i].pc = "entered"]
    /\ UNCHANGED <<admFrame, cancVars, on_scan_complete_cb, run_scan_fn, status, req, alert,
                   scan_lock, queued_order>>

\* _run_scan_inner line 89: status = running
run_scan_inner_begin(s, i) ==
    /\ tasks[s][i].pc = "entered"
    /\ status' = [status EXCEPT ![s] = "running"]
    /\ tasks' = [tasks EXCEPT ![s][i].pc = "inner"]
    /\ UNCHANGED <<admFrame, cancVars, active_scans, on_scan_complete_cb, run_scan_fn, req, alert,
                   scan_lock, queued_order>>

\* The pipeline ends: _run_scan_inner writes its terminal status, or raises and
\* run_scan line 75-79 writes error; then line 80-84, finally: _active_scans -= 1,
\* db.close() (no effect on the shared state), the completion callback is
\* scheduled only when one is registered, and the coroutine returns to its
\* caller: an alert's run leaves the async with block and releases _scan_lock.
RunOutcomes == {"completed", "error", "cancelled"}

run_scan_finally(s, i, outcome) ==
    /\ tasks[s][i].pc = "inner"
    /\ outcome = "cancelled" => event_set[s]
    /\ status' = [status EXCEPT ![s] = outcome]
    /\ active_scans' = active_scans - 1
    /\ tasks' = [tasks EXCEPT ![s][i].pc = "returned"]
    /\ IF tasks[s][i].via = "alert"
       THEN /\ scan_lock' = 0
            /\ alert' = [alert EXCEPT ![scan_lock].pc = "done"]
       ELSE UNCHANGED <<scan_lock, alert>>
    /\ UNCHANGED <<admFrame, cancVars, on_scan_complete_cb, run_scan_fn, req, queued_order>>

\* ------------------------------------------------------------ cancel_scan
\* routers/scans.py line 95-97: the handler looks the event up, then awaits
\* get_db and get_scan (an unknown id ends in 404 and changes nothing)
cancel_scan_begin(s) ==
    /\ cancel_call.pc = "idle"
    /\ status[s] # "none"
    /\ cancel_call' = [pc |-> "reading", scan |-> s, event |-> s \in active_scan_events,
                       queued |-> FALSE]
    /\ UNCHANGED <<admFrame, active_scans, on_scan_complete_cb, run_scan_fn, status, req,
                   alert, scan_lock, tasks, queued_order, active_scan_events, event_set,
                   cancelled_queued>>

\* line 98-106: the row is read; a run neither running nor queued gives 400;
\* else the event found at line 95 is set and its entry removed, and the write
\* of status cancelled is awaited
Cancellable(st) == st \in {"running", "queued"}

cancel_scan_read ==
    /\ cancel_call.pc = "reading"
    /\ LET s == cancel_call.scan IN
       IF ~Cancellable(status[s])
       THEN /\ cancel_call' = [cancel_call EXCEPT !.pc = "done"]
            /\ UNCHANGED <<active_scan_events, event_set>>
       ELSE /\ cancel_call' = [cancel_call EXCEPT !.pc = "writing",
                                                  !.queued = (status[s] = "queued")]
            /\ IF cancel_call.event
               THEN /\ event_set' = [event_set EXCEPT ![s] = TRUE]
                    /\ active_scan_events' = active_scan_events \ {s}
               ELSE UNCHANGED <<active_scan_events, event_set>>
    /\ UNCHANGED <<admFrame, active_scans, on_scan_complete_cb, run_scan_fn, status, req,
                   alert, scan_lock, tasks, queued_order, cancelled_queued>>

\* line 106-109: update_scan_progress(status="cancelled") reaches the table
\* and the handler returns
cancel_scan_write ==
    /\ cancel_call.pc = "writing"
    /\ status' = [status EXCEPT ![cancel_call.scan] = "cancelled"]
    /\ cancelled_queued' = IF cancel_call.queued
                           THEN cancelled_queued \cup {cancel_call.scan}
                           ELSE cancelled_queued
    /\ cancel_call' = [cancel_call EXCEPT !.pc = "done"]
    /\ UNCHANGED <<admFrame, active_scans, on_scan_complete_cb, run_scan_fn, req, alert,
                   scan_lock, tasks, queued_order, active_scan_events, event_set>>

\* ======================================================================
\* The pipeline of one run
\* ======================================================================
KW == 1..MaxKeywords          \* keyword_list, sorted
Ids == 1..MaxIds              \* identities "source_type:id" the sources can return
ResultSeqs == UNION {[1..n -> Ids] : n \in 0..MaxResults}

Range(f) == {f[x] : x \in DOMAIN f}

\* ------------------------------------------------- classifier.classify
\* What one request to the model API can give: an answer whose text is a JSON
\* object (relevant or not), a text that is not JSON, a text that is JSON but
\* not an object (null, a list, a string), and the API's errors
\* (AuthenticationError is an anthropic.APIError).
Responses ==
    {"relevant", "not_relevant", "bad_json", "not_object", "rate_limit", "timeout",
     "auth_error", "api_error"}

\* (mutation) the second attempt is taken for the last
LastAttempt_Early(attempt) == attempt >= 1

\* line 246, 263, 270: if attempt < 2: sleep and continue
LastAttempt(attempt) == attempt >= 2

\* TopicClassifier.classify line 196-276: for attempt in range(3). The value
\* returned is the tuple the code builds (four elements: the usage dict is the
\* fourth); a raise carries the ClassifierAPIError message.
RECURSIVE classify_from(_, _)
classify_from(resp, attempt) ==
    IF attempt >= 3
    THEN [kind |-> "raise", value |-> <<"Rate limited - all retries exhausted">>,
          api_errors |-> 1, attempts |-> 3]
    ELSE LET r == resp[attempt + 1] IN
         CASE r = "relevant" ->
                [kind |-> "return", value |-> <<"dict", "None", "None", "usage">>,
                 api_errors |-> 0, attempts |-> attempt + 1]
           [] r = "not_relevant" ->
                [kind |-> "return", value |-> <<"None", "reason", "category", "usage">>,
                 api_errors |-> 0, attempts |-> attempt + 1]
           [] r = "bad_json" ->
                IF ~LastAttempt(attempt) THEN classify_from(resp, attempt + 1)
                ELSE [kind |-> "return",
                      value |-> <<"None", "Invalid JSON response from classifier", "generic", "usage">>,
                      api_errors |-> 1, attempts |-> attempt + 1]
           [] r = "rate_limit" -> classify_from(resp, attempt + 1)
           [] r = "not_object" ->
                \* line 227: parsed.get raises AttributeError, which no except
                \* clause of classify catches
                [kind |-> "error", value |-> <<"AttributeError">>,
                 api_errors |-> 0, attempts |-> attempt + 1]
           [] r = "timeout" ->
                IF ~LastAttempt(attempt) THEN classify_from(resp, attempt + 1)
                ELSE [kind |-> "raise", value |-> <<"Classifier API timeout">>,
                      api_errors |-> 1, attempts |-> attempt + 1]
           [] OTHER ->
                IF ~LastAttempt(attempt) THEN classify_from(resp, attempt + 1)
                ELSE [kind |-> "raise", value |-> <<"API error">>,
                      api_errors |-> 1, attempts |-> attempt + 1]

classify(resp) == classify_from(resp, 0)

\* Every way one classify call can end, over all behaviours of the API.
ClassifyOutcomes ==
    {[kind |-> o.kind, value |-> o.value, api_errors |-> o.api_errors] :
        o \in {classify(resp) : resp \in [1..3 -> Responses]}}

\* scanner.py line 321 / 489 / 666 / 758:
\*   classification, discard_reason, discard_category = await classifier.classify(c)
\* Unpacking into three targets succeeds only for a 3-tuple; otherwise ValueError.
UnpackOk(value) == Len(value) = 3

\* classifier.py line 228-240: what the classifier decided, read off the tuple
\* it returns: (dict, None, None, usage) or (None, reason, category, usage)
Decision(value) == IF value[1] # "None" THEN "relevant" ELSE "discarded"

\* (mutation) the failing item is dropped instead of kept for retry
RouteToRetry_Lost(failed, c) == failed

\* api_failed.append(contribution) (line 315, 324, 661, 668) and
\* still_failed.append(c) (line 522, 789)
RouteToRetry(failed, c) == Append(failed, c)

\* ------------------------------------------------ database.insert_result
\* results table line 53-74: a row exists for (scan_id, dedup_key)
HasRow(rows, scan_id, dedup_key) ==
    \E i \in DOMAIN rows : rows[i].scan_id = scan_id /\ rows[i].dedup_key = dedup_key

\* line 726-730: SELECT MIN(scan_id) FROM results WHERE dedup_key = ?;
\* first_seen = row[0] if row and row[0] else scan_id
first_seen(rows, scan_id, dedup_key) ==
    LET S == {rows[i].scan_id : i \in {j \in DOMAIN rows : rows[j].dedup_key = dedup_key}}
    IN IF S = {} THEN scan_id ELSE CHOOSE x \in S : \A y \in S : x <= y

\* (mutation) a plain insert into a table without the uniqueness constraint
InsertOrIgnore_Always(rows, row) == Append(rows, row)

\* line 732-758: INSERT OR IGNORE under UNIQUE(scan_id, dedup_key)
InsertOrIgnore(rows, row) ==
    IF HasRow(rows, row.scan_id, row.dedup_key) THEN rows ELSE Append(rows, row)

\* insert_result as one call made with nothing else writing in between
insert_result(rows, scan_id, dedup_key) ==
    InsertOrIgnore(rows, [scan_id |-> scan_id, dedup_key |-> dedup_key,
                          first_seen_scan_id |-> first_seen(rows, scan_id, dedup_key)])

\* the dedup keys of the rows stored
ResultKeys(rows) == {rows[i].dedup_key : i \in DOMAIN rows}

\* _run_scan_inner's parameter scan_id: the id of the run of ScanSpec
scan_id_of_run == 1

\* database.insert_audit_log_batch: one row per item, classification =
\* "procedural_filter" or "not_relevant". The rows of the permanent failures
\* (scanner.py line 543-548) also carry classification "not_relevant", with the
\* fixed reason "Rate limited - classification failed after all retries"; they
\* are counted apart here as "failed_all_retries".
AuditKinds == {"procedural_filter", "not_relevant", "failed_all_retries"}

RECURSIVE insert_audit_log_batch(_, _, _)
insert_audit_log_batch(audit, items, kind) ==
    IF items = <<>> THEN audit
    ELSE insert_audit_log_batch([audit EXCEPT ![Head(items)][kind] = @ + 1],
                                Tail(items), kind)

\* ------------------------------------------------ dedup registry
\* (mutation) the pre-filter lets every item through
item_is_procedural_Never(c) == FALSE

\* _search_keyword line 273, _run_member_topic_scan line 623: the outcome of
\* is_procedural(c.text, c.source_type); the item's text is an input of the run.
item_is_procedural(c) == c \in cfg.procedural

\* (mutation) the registry never recognises a repeated identity
KeyInSeen_Never(key, seen) == FALSE

\* line 265: key in seen
KeyInSeen(key, seen) == key \in DOMAIN seen

\* (mutation) keywords are appended without the membership test
MergeKeywords_Append(existing, kws) == existing \o kws

\* line 268-270 / 47-49: for mk in c.matched_keywords: append when absent
RECURSIVE MergeKeywords(_, _)
MergeKeywords(existing, kws) ==
    IF kws = <<>> THEN existing
    ELSE MergeKeywords(IF Head(kws) \in Range(existing) THEN existing
                       ELSE Append(existing, Head(kws)),
                       Tail(kws))

\* line 260-280, the body of "for c in results" for one contribution c whose
\* matched_keywords is kws; r is the shared state, np the task's new_procedural.
AdmitOne(r, np, c, kws) ==
    IF KeyInSeen(c, r.seen)
    THEN [r |-> [r EXCEPT !.seen[c] = MergeKeywords(@, kws)], np |-> np]
    ELSE LET r1 == [r EXCEPT !.seen = [k \in DOMAIN r.seen \cup {c} |->
                                          IF k = c THEN kws ELSE r.seen[k]]]
         IN IF item_is_procedural(c)
            THEN [r |-> [r1 EXCEPT !.procedural_items = Append(@, c)],
                  np |-> Append(np, c)]
            ELSE [r |-> [r1 EXCEPT !.queued_for_classify = @ + 1,
                                   !.classify_queue = Append(@, c)],
                  np |-> np]

RECURSIVE AdmitAll(_, _, _, _)
AdmitAll(r, np, results, kws) ==
    IF results = <<>> THEN [r |-> r, np |-> np]
    ELSE LET a == AdmitOne(r, np, Head(results), kws)
         IN AdmitAll(a.r, a.np, Tail(results), kws)

\* scanner._dedup_contributions line 40-52, on a list of (id, matched_keywords);
\* gives the dict seen and the order of its values.
RECURSIVE dedup_contributions(_, _, _)
dedup_contributions(raw, seen, order) ==
    IF raw = <<>> THEN [seen |-> seen, order |-> order]
    ELSE LET c == Head(raw) IN
         IF KeyInSeen(c.id, seen)
         THEN dedup_contributions(Tail(raw),
                  [seen EXCEPT ![c.id] = MergeKeywords(@, c.matched_keywords)], order)
         ELSE dedup_contributions(Tail(raw),
                  [k \in DOMAIN seen \cup {c.id} |->
                      IF k = c.id THEN c.matched_keywords ELSE seen[k]],
                  Append(order, c.id))

\* ------------------------------------------------- the progress row
Min(a, b) == IF a < b THEN a ELSE b

\* line 92-111: the counters of the stats dict, as they stand when
\* json.dumps(stats) is taken; r and c are the registry's and the
\* classification's variables the code copies into the dict as it changes them.
stats(r, c) ==
    [total_api_results |-> r.total_api_results,
     unique_after_dedup |-> Cardinality(DOMAIN r.seen),
     removed_by_prefilter |-> Len(r.procedural_items),
     sent_to_classifier |-> r.queued_for_classify,
     classified_relevant |-> c.stats_classified_relevant,
     classifier_api_errors |-> c.stats_api_errors,
     completed_keywords |-> r.completed_keywords]

\* line 113-115, 561-567: one write of progress and of the snapshot of stats
update_with_stats(st, progress, r, c) ==
    [st EXCEPT !.progress = progress, !.current_phase = stats(r, c)]

\* line 342, 418, 479, 566, 682, 726, 748, 819: the writes that also pass
\* total_relevant=total_relevant
update_with_total(st, progress, r, c) ==
    [update_with_stats(st, progress, r, c) EXCEPT !.total_relevant = c.total_relevant]

\* line 229, 284, 338, 410: (completed_keywords / total_keywords) * 60, in
\* whole percent
search_pct(r) == (r.completed_keywords * 60) \div MaxKeywords

\* line 336-340, 406-411: the progress of a write made by _classify_one
classify_progress(r, c) ==
    IF r.search_done
    THEN 60 + (c.classified_count * 35) \div (IF r.queued_for_classify > 1
                                              THEN r.queued_for_classify ELSE 1)
    ELSE search_pct(r)

\* ------------------------------------------------------------ Init
ScanModes == {"topics", "member_topics", "member_only", "no_selection"}

Members == 1..MaxMembers

\* the member a contribution is attributed to (Contribution.member_id)
member_id(c) == ((c - 1) % MaxMembers) + 1

\* (mutation) an empty selection is run as a topics run
Dispatch_NoGuard(selected_topics, target_member_ids) ==
    IF target_member_ids = {}
    THEN "topics"
    ELSE IF ~selected_topics THEN "member_only" ELSE "member_topics"

\* _run_scan_inner line 146-170: the three-way branch on the selection
Dispatch(selected_topics, target_member_ids) ==
    IF ~selected_topics /\ target_member_ids = {}
    THEN "no_selection"
    ELSE IF ~selected_topics /\ target_member_ids # {}
    THEN "member_only"
    ELSE IF selected_topics /\ target_member_ids # {}
    THEN "member_topics"
    ELSE "topics"

\* where _run_scan_inner goes after loading the run's configuration
FirstStep(mode) ==
    CASE mode = "topics" -> "pipeline"
      [] mode = "member_topics" -> "mt_fetch"
      [] mode = "member_only" -> "mo_fetch"
      [] OTHER -> "no_selection"

NoSeen == [k \in {} |-> <<>>]

ScanIdle(m) ==
    /\ cancel_event = FALSE
    /\ cancel_pc = "idle"
    /\ kw = [k \in KW |-> [pc |-> "pending", searched |-> FALSE, results |-> <<>>,
                            new_procedural |-> <<>>]]
    /\ reg = [seen |-> NoSeen, procedural_items |-> <<>>, classify_queue |-> <<>>,
              queue_head |-> 1, completed_keywords |-> 0, total_api_results |-> 0,
              queued_for_classify |-> 0, search_done |-> FALSE, progress_lock |-> FALSE]
    /\ consumer_pc = "loop"
    /\ ctasks = <<>>
    /\ cls = [api_paused |-> FALSE, api_failed |-> <<>>, api_errors |-> 0,
              stats_api_errors |-> 0, classified_count |-> 0, total_relevant |-> 0,
              stats_classified_relevant |-> 0, classified_discarded |-> 0]
    /\ main = [pc |-> m, retry_round |-> 0, retry_wait |-> 0, still_failed |-> <<>>,
               idx |-> 1, to_classify |-> <<>>, contributions |-> <<>>, row |-> <<>>]
    /\ store = [results |-> <<>>, status |-> "running", error_message |-> "",
                audit |-> [c \in Ids |-> [k \in AuditKinds |-> 0]],
                progress |-> 0, current_phase |-> stats(reg, cls), total_relevant |-> 0]
    /\ hist = [waits |-> <<>>, calls_started |-> 0, signalled |-> FALSE,
               routed |-> [c \in Ids |-> 0], decided |-> [c \in Ids |-> "none"],
               observed |-> FALSE, summarise_calls |-> 0, member_fetches |-> 0]

\* _run_scan_inner line 89-170: status running, then the branch on the run's
\* configuration; the run's inputs are chosen here.
ScanInit ==
    /\ \E selected_topics \in BOOLEAN, target_member_ids \in SUBSET Members,
          stagger \in BOOLEAN, procedural \in SUBSET Ids :
            cfg = [mode |-> Dispatch(selected_topics, target_member_ids),
                   selected_topics |-> selected_topics,
                   target_member_ids |-> target_member_ids,
                   stagger |-> stagger, procedural |-> procedural]
    /\ ScanIdle(FirstStep(cfg.mode))

\* ------------------------------------------------------- cancel_scan
\* routers/scans.cancel_scan line 95-102: the run's row is read; the handler
\* goes on only for a run that is running or queued.
cancel_scan_check ==
    /\ cancel_pc = "idle"
    /\ store.status \in {"running", "queued"}
    /\ cancel_pc' = "checked"
    /\ UNCHANGED <<scanFrame, cfg, cancel_event, kw, reg, consumer_pc, ctasks, cls, main,
                   store, hist>>

\* line 103-106: event.set(), and the write of status cancelled is issued
cancel ==
    /\ cancel_pc = "checked"
    /\ cancel_event' = TRUE
    /\ cancel_pc' = "set"
    /\ UNCHANGED <<scanFrame, cfg, kw, reg, consumer_pc, ctasks, cls, main, store, hist>>

\* line 106: update_scan_progress(status="cancelled") reaches the table
cancel_scan_written ==
    /\ cancel_pc = "set"
    /\ store' = [store EXCEPT !.status = "cancelled"]
    /\ cancel_pc' = "done"
    /\ UNCHANGED <<scanFrame, cfg, cancel_event, kw, reg, consumer_pc, ctasks, cls, main,
                   hist>>

\* --------------------------------------------- _search_keyword (topics)
\* run_scan line 80-82: db.close() when the run leaves. The tasks of the
\* pipeline share the run's connection: a task the run has left behind gets an
\* exception from its next database call, and is followed no further.
DbOpen == main.pc # "done"

ActiveSearches ==
    Cardinality({k \in KW : kw[k].pc \in {"active", "searching", "skipped", "writing"}})

\* a check point reads the token
Observe(h) == [h EXCEPT !.observed = @ \/ cancel_event]

\* line 219-225: async with keyword_sem; a set cancellation token ends the task.
search_keyword_begin(k) ==
    /\ DbOpen
    /\ cfg.mode = "topics"
    /\ kw[k].pc = "pending"
    /\ ActiveSearches < KEYWORD_PARALLELISM
    /\ kw' = [kw EXCEPT ![k].pc = IF cancel_event THEN "done" ELSE "active"]
    /\ hist' = Observe(hist)
    /\ UNCHANGED <<scanFrame, cfg, cancelVars, reg, consumer_pc, ctasks, cls, main, store>>

\* line 227-242 and parliament.search_all line 781-799: on_source_start writes
\* the progress under progress_lock, then the source searches are started together; each _search_one
\* reads the token first and gives [] when it is set, else calls its source.
search_all_dispatch(k) ==
    /\ DbOpen
    /\ kw[k].pc = "active"
    /\ ~reg.progress_lock
    /\ store' = update_with_stats(store, search_pct(reg), reg, cls)
    /\ kw' = [kw EXCEPT ![k].pc = IF cancel_event THEN "skipped" ELSE "searching",
                        ![k].searched = ~cancel_event]
    /\ hist' = Observe(hist)
    /\ UNCHANGED <<scanFrame, cfg, cancelVars, reg, consumer_pc, ctasks, cls, main>>

\* line 239-285: search_all returns; under progress_lock the results are
\* counted, merged into seen, pre-filtered and queued; the lock is kept while
\* the progress row is written.
search_keyword_admit(k, results) ==
    /\ DbOpen
    /\ kw[k].pc \in {"searching", "skipped"}
    /\ kw[k].pc = "skipped" => results = <<>>
    /\ ~reg.progress_lock
    /\ LET r0 == [reg EXCEPT !.completed_keywords = @ + 1,
                             !.total_api_results = @ + Len(results),
                             !.progress_lock = TRUE]
           a == AdmitAll(r0, <<>>, results, <<k>>)
       IN /\ reg' = a.r
          /\ kw' = [kw EXCEPT ![k] = [pc |-> "writing", searched |-> kw[k].searched,
                                      results |-> results, new_procedural |-> a.np]]
          /\ store' = update_with_stats(store, Min(search_pct(a.r), 59), a.r, cls)
    /\ UNCHANGED <<scanFrame, cfg, cancelVars, consumer_pc, ctasks, cls, main, hist>>

\* line 285-295: the write ends, the lock is released, and the procedural
\* items found by this keyword get their audit rows.
search_keyword_written(k) ==
    /\ DbOpen
    /\ kw[k].pc = "writing"
    /\ reg' = [reg EXCEPT !.progress_lock = FALSE]
    /\ store' = [store EXCEPT !.audit =
                    insert_audit_log_batch(@, kw[k].new_procedural, "procedural_filter")]
    /\ kw' = [kw EXCEPT ![k].pc = "done"]
    /\ UNCHANGED <<scanFrame, cfg, cancelVars, consumer_pc, ctasks, cls, main, hist>>

\* line 227-237, 239: the progress write of on_source_start raises (the
\* database call fails); the exception leaves search_all and _search_keyword,
\* and progress_lock and keyword_sem are released on the way out
search_keyword_raises(k) ==
    /\ DbOpen
    /\ kw[k].pc = "active"
    /\ ~reg.progress_lock
    /\ kw' = [kw EXCEPT ![k].pc = "raised"]
    /\ UNCHANGED <<scanFrame, cfg, cancelVars, reg, consumer_pc, ctasks, cls, main, store, hist>>

\* _run_all_searches line 297-303: after gather, search_done and the sentinel.
Sentinel == 0

run_all_searches_done ==
    /\ DbOpen
    /\ cfg.mode = "topics"
    /\ ~reg.search_done
    /\ \A k \in KW : kw[k].pc = "done"
    /\ reg' = [reg EXCEPT !.search_done = TRUE,
                          !.classify_queue = Append(@, Sentinel)]
    /\ UNCHANGED <<scanFrame, cfg, cancelVars, kw, consumer_pc, ctasks, cls, main, store, hist>>

\* ------------------------------------- _classification_consumer (topics)
QueueHasItem == reg.queue_head <= Len(reg.classify_queue)

\* line 430-435: one item leaves the queue: the sentinel ends the loop, any
\* other item gets its _classify_one task.
TakeItem ==
    LET item == reg.classify_queue[reg.queue_head] IN
    /\ reg' = [reg EXCEPT !.queue_head = @ + 1]
    /\ IF item = Sentinel
       THEN /\ consumer_pc' = "gather"
            /\ UNCHANGED ctasks
       ELSE /\ consumer_pc' = "loop"
            /\ ctasks' = Append(ctasks, [item |-> item, pc |-> "created"])

\* line 427-430: the token is looked at before every get(); get() on an empty
\* queue suspends the consumer.
classification_consumer_loop ==
    /\ DbOpen
    /\ cfg.mode = "topics"
    /\ consumer_pc = "loop"
    /\ IF cancel_event
       THEN /\ consumer_pc' = "gather"
            /\ UNCHANGED <<reg, ctasks>>
       ELSE IF QueueHasItem
            THEN TakeItem
            ELSE /\ consumer_pc' = "blocked"
                 /\ UNCHANGED <<reg, ctasks>>
    /\ hist' = Observe(hist)
    /\ UNCHANGED <<scanFrame, cfg, cancelVars, kw, cls, main, store>>

\* a suspended get() returns when an item arrives
classification_consumer_wake ==
    /\ DbOpen
    /\ consumer_pc = "blocked"
    /\ QueueHasItem
    /\ TakeItem
    /\ UNCHANGED <<scanFrame, cfg, cancelVars, kw, cls, main, store, hist>>

\* line 436-438: gather(*pending, return_exceptions=True)
classification_consumer_gather ==
    /\ DbOpen
    /\ consumer_pc = "gather"
    /\ \A n \in 1..Len(ctasks) : ctasks[n].pc = "done"
    /\ consumer_pc' = "done"
    /\ UNCHANGED <<scanFrame, cfg, cancelVars, kw, reg, ctasks, cls, main, store, hist>>

\* ------------------------------------------------ _classify_one (topics)
InSem == Cardinality({n \in 1..Len(ctasks) : ctasks[n].pc \notin {"created", "done"}})

\* line 314-316: under progress_lock, the item goes to api_failed unclassified
SkipPaused(n) ==
    /\ cls' = [cls EXCEPT !.api_failed = RouteToRetry(@, ctasks[n].item),
                          !.stats_api_errors = Len(cls.api_failed) + 1]
    /\ ctasks' = [ctasks EXCEPT ![n].pc = "done"]

\* line 321: classifier.classify is called
StartCall(n) ==
    /\ ctasks' = [ctasks EXCEPT ![n].pc = "calling"]
    /\ hist' = [hist EXCEPT !.calls_started = @ + 1]

\* line 309-319: async with classify_sem; token; api_paused; stagger
classify_one_begin(n) ==
    /\ DbOpen
    /\ ctasks[n].pc = "created"
    /\ InSem < CLASSIFIER_CONCURRENCY
    /\ IF cancel_event
       THEN /\ ctasks' = [ctasks EXCEPT ![n].pc = "done"]
            /\ hist' = Observe(hist)
            /\ UNCHANGED cls
       ELSE IF cls.api_paused
            THEN IF ~reg.progress_lock
                 THEN SkipPaused(n) /\ UNCHANGED hist
                 ELSE /\ ctasks' = [ctasks EXCEPT ![n].pc = "paused_lock"]
                      /\ UNCHANGED <<cls, hist>>
            ELSE IF cfg.stagger
                 THEN /\ ctasks' = [ctasks EXCEPT ![n].pc = "stagger"]
                      /\ UNCHANGED <<cls, hist>>
                 ELSE StartCall(n) /\ UNCHANGED cls
    /\ UNCHANGED <<scanFrame, cfg, cancelVars, kw, reg, consumer_pc, main, store>>

classify_one_paused_lock(n) ==
    /\ DbOpen
    /\ ctasks[n].pc = "paused_lock"
    /\ ~reg.progress_lock
    /\ SkipPaused(n)
    /\ UNCHANGED <<scanFrame, cfg, cancelVars, kw, reg, consumer_pc, main, store, hist>>

\* line 318-321: the stagger sleep ends and the call is made
classify_one_stagger_done(n) ==
    /\ DbOpen
    /\ ctasks[n].pc = "stagger"
    /\ StartCall(n)
    /\ UNCHANGED <<scanFrame, cfg, cancelVars, kw, reg, consumer_pc, cls, main, store>>

\* line 322-343: except ClassifierAPIError, under progress_lock; the lock is
\* kept while the progress row is written. c is classifier.api_errors.
OnClassifierAPIError(n, c) ==
    /\ cls' = [cls EXCEPT !.api_failed = RouteToRetry(@, ctasks[n].item),
                          !.api_errors = c,
                          !.stats_api_errors = c,
                          !.api_paused = TRUE]
    /\ reg' = [reg EXCEPT !.progress_lock = TRUE]
    /\ ctasks' = [ctasks EXCEPT ![n].pc = "err_write"]
    /\ store' = update_with_total(store, Min(classify_progress(reg, cls), 95), reg, cls')

\* line 345-423: a Relevant outcome is stored, a Discarded one audited, both
\* counted under progress_lock.
OnClassified(n, o) ==
    LET c == ctasks[n].item
        errors == cls.api_errors + o.api_errors
        written(st) == IF cls'.classified_count % 2 = 0 \/ cls'.classified_count <= 5
                       THEN update_with_total(st, Min(classify_progress(reg, cls'), 95), reg, cls')
                       ELSE st
    IN
    /\ IF o.value[1] # "None"
       THEN /\ cls' = [cls EXCEPT !.api_errors = errors,
                                  !.classified_count = @ + 1, !.total_relevant = @ + 1,
                                  !.stats_classified_relevant = cls.total_relevant + 1]
            /\ store' = written([store EXCEPT !.results = insert_result(@, scan_id_of_run, c)])
       ELSE /\ cls' = [cls EXCEPT !.api_errors = errors,
                                  !.classified_count = @ + 1,
                                  !.classified_discarded = @ + 1,
                                  !.stats_api_errors = errors]
            /\ store' = written([store EXCEPT !.audit =
                                    insert_audit_log_batch(@, <<c>>, "not_relevant")])
    /\ ctasks' = [ctasks EXCEPT ![n].pc = "done"]
    /\ UNCHANGED reg

\* line 321: the call ends (classify has counted its own api_errors). A
\* ClassifierAPIError goes to the except branch: a free progress_lock is taken
\* at once, a held one is waited for. A returned tuple is unpacked into three
\* names, and a failed unpacking (ValueError) ends the task: the consumer's
\* gather(return_exceptions=True) swallows it.
classify_one_returned(n, o) ==
    /\ DbOpen
    /\ ctasks[n].pc = "calling"
    /\ IF o.kind = "raise"
       THEN IF ~reg.progress_lock
            THEN /\ OnClassifierAPIError(n, cls.api_errors + o.api_errors)
                 /\ hist' = [hist EXCEPT !.signalled = TRUE,
                                         !.routed[ctasks[n].item] = @ + 1]
            ELSE /\ ctasks' = [ctasks EXCEPT ![n].pc = "err_lock"]
                 /\ cls' = [cls EXCEPT !.api_errors = @ + o.api_errors]
                 /\ hist' = [hist EXCEPT !.signalled = TRUE]
                 /\ UNCHANGED <<reg, store>>
       ELSE /\ hist' = [hist EXCEPT !.decided[ctasks[n].item] =
                                        IF o.kind = "return" THEN Decision(o.value) ELSE @]
            /\ IF o.kind = "return" /\ UnpackOk(o.value)
               THEN OnClassified(n, o)
               ELSE /\ ctasks' = [ctasks EXCEPT ![n].pc = "done"]
                    /\ cls' = [cls EXCEPT !.api_errors = @ + o.api_errors]
                    /\ UNCHANGED <<reg, store>>
    /\ UNCHANGED <<scanFrame, cfg, cancelVars, kw, consumer_pc, main>>

classify_one_err_lock(n) ==
    /\ DbOpen
    /\ ctasks[n].pc = "err_lock"
    /\ ~reg.progress_lock
    /\ OnClassifierAPIError(n, cls.api_errors)
    /\ hist' = [hist EXCEPT !.routed[ctasks[n].item] = @ + 1]
    /\ UNCHANGED <<scanFrame, cfg, cancelVars, kw, consumer_pc, main>>

classify_one_err_written(n) ==
    /\ DbOpen
    /\ ctasks[n].pc = "err_write"
    /\ reg' = [reg EXCEPT !.progress_lock = FALSE]
    /\ ctasks' = [ctasks EXCEPT ![n].pc = "done"]
    /\ UNCHANGED <<scanFrame, cfg, cancelVars, kw, consumer_pc, cls, main, store, hist>>

\* ------------------------------------------- the run's own coroutine
\* The coroutine's own state, passed through the code that runs between two
\* awaits: b = [main, cls, store, hist].
Bundle == [main |-> main, cls |-> cls, store |-> store, hist |-> hist]

SetBundle(b) ==
    /\ main' = b.main
    /\ cls' = b.cls
    /\ store' = b.store
    /\ hist' = b.hist

\* (mutation) the wait triples
NextRetryWait_Triple(w) == IF w * 3 < 300 THEN w * 3 ELSE 300

\* line 481 / 750: retry_wait = min(retry_wait * 2, 300)
NextRetryWait(w) == IF w * 2 < 300 THEN w * 2 ELSE 300

\* (mutation) the items still failing are not audited
ExitRetry_SkipAudit(b) == [b EXCEPT !.main.pc = "finalize"]

\* line 536-549 / 801-809: after the loop, if api_failed: the audit rows
ExitRetry(b) ==
    [b EXCEPT !.main.pc = IF b.cls.api_failed # <<>> THEN "perm_audit" ELSE "finalize"]

\* (mutation) one round more
RoundsLeft_OneMore(retry_round) == retry_round <= max_retry_rounds

\* line 471 / 740: for retry_round in range(max_retry_rounds)
RoundsLeft(retry_round) == retry_round < max_retry_rounds

\* line 471-480 / 740-749: the head of the loop, the token, api_paused, the
\* progress write and asyncio.sleep(retry_wait)
RetryTop(b) ==
    IF ~RoundsLeft(b.main.retry_round)
    THEN ExitRetry(b)
    ELSE IF cancel_event
    THEN ExitRetry([b EXCEPT !.hist = Observe(@)])
    ELSE [b EXCEPT !.cls.api_paused = TRUE,
                   !.store = update_with_total(@, 97, reg, b.cls),
                   !.main.pc = "retry_sleep",
                   !.hist.waits = Append(@, b.main.retry_wait)]

\* line 529-532 / 796-799: api_failed = still_failed; an empty list ends the loop
EndRound(b) ==
    LET b1 == [b EXCEPT !.cls.api_failed = b.main.still_failed] IN
    IF b1.cls.api_failed = <<>>
    THEN ExitRetry([b1 EXCEPT !.cls.api_paused = FALSE])
    ELSE RetryTop([b1 EXCEPT !.main.retry_round = @ + 1])

\* line 484-489 / 753-758: for c in api_failed: the token, then the call
RetryItem(b) ==
    IF b.main.idx > Len(b.cls.api_failed)
    THEN EndRound(b)
    ELSE IF cancel_event
         THEN EndRound([b EXCEPT !.main.still_failed = @ \o b.cls.api_failed,
                                 !.hist = Observe(@)])
         ELSE [b EXCEPT !.main.pc = "retry_call"]

\* line 461-463 / 733-735: if api_failed: retry_wait = 30
StartRetry(b) ==
    IF b.cls.api_failed # <<>>
    THEN RetryTop([b EXCEPT !.main.retry_wait = 30, !.main.retry_round = 0])
    ELSE [b EXCEPT !.main.pc = "finalize"]

\* line 456-458 / 728-730: a set token ends the run as cancelled
PostPipeline(b) ==
    IF cancel_event
    THEN [b EXCEPT !.store.status = "cancelled", !.main.pc = "done", !.hist = Observe(@)]
    ELSE StartRetry(b)

\* run_scan line 75-79: an exception leaving _run_scan_inner marks the run error
RunRaises(b) ==
    [b EXCEPT !.store.status = "error", !.store.error_message = "str(e)", !.main.pc = "done"]

\* line 444-458: await search_task; await classify_task; client.close()
run_scan_inner_join ==
    /\ main.pc = "pipeline"
    /\ reg.search_done
    /\ consumer_pc = "done"
    /\ SetBundle(PostPipeline(Bundle))
    /\ UNCHANGED <<scanFrame, cfg, cancelVars, kw, reg, consumer_pc, ctasks>>

\* line 299 and 444-448: gather(*tasks) raises the exception of a keyword
\* search, so _run_all_searches ends before search_done and the sentinel;
\* await search_task raises it in _run_scan_inner, client.close() runs and the
\* exception leaves for run_scan; classify_task is not awaited
run_scan_inner_search_raised ==
    /\ main.pc = "pipeline"
    /\ \E k \in KW : kw[k].pc = "raised"
    /\ SetBundle(RunRaises(Bundle))
    /\ UNCHANGED <<scanFrame, cfg, cancelVars, kw, reg, consumer_pc, ctasks>>

\* line 480-484 / 749-753: the sleep ends; the wait doubles; the round starts
retry_sleep_done ==
    /\ main.pc = "retry_sleep"
    /\ SetBundle(RetryItem([Bundle EXCEPT !.main.retry_wait = NextRetryWait(@),
                                          !.main.still_failed = <<>>,
                                          !.main.idx = 1]))
    /\ UNCHANGED <<scanFrame, cfg, cancelVars, kw, reg, consumer_pc, ctasks>>

\* line 490-520 / 759-787, in a retry round or in the member+topics loop: a
\* Relevant outcome is stored and counted, a Discarded one audited.
Classified(b, c, value) ==
    IF value[1] # "None"
    THEN [b EXCEPT !.store.results = insert_result(@, scan_id_of_run, c), !.cls.total_relevant = @ + 1]
    ELSE [b EXCEPT !.store.audit = insert_audit_log_batch(@, <<c>>, "not_relevant")]

\* line 489-522 / 758-789: the call of a retry round ends
retry_call_returned(o) ==
    /\ main.pc = "retry_call"
    /\ LET c == cls.api_failed[main.idx]
           b == [Bundle EXCEPT !.cls.api_errors = @ + o.api_errors, !.main.idx = @ + 1,
                               !.hist.decided[c] = IF o.kind = "return"
                                                   THEN Decision(o.value) ELSE @]
       IN IF o.kind = "raise"
          THEN SetBundle(RetryItem([b EXCEPT !.main.still_failed = RouteToRetry(@, c),
                                             !.hist.routed[c] = @ + 1]))
          ELSE IF o.kind = "return" /\ UnpackOk(o.value)
               THEN SetBundle(RetryItem(Classified(b, c, o.value)))
               ELSE SetBundle(RunRaises(b))
    /\ UNCHANGED <<scanFrame, cfg, cancelVars, kw, reg, consumer_pc, ctasks>>

\* line 537-549 / 801-809: the items still failing get their audit rows
perm_audit ==
    /\ main.pc = "perm_audit"
    /\ SetBundle([Bundle EXCEPT
            !.store.audit = insert_audit_log_batch(@, cls.api_failed, "failed_all_retries"),
            !.main.pc = "finalize"])
    /\ UNCHANGED <<scanFrame, cfg, cancelVars, kw, reg, consumer_pc, ctasks>>

\* line 557-567 / 811-820: status completed
finalize ==
    /\ main.pc = "finalize"
    /\ SetBundle([Bundle EXCEPT
            !.cls.api_paused = FALSE,
            !.cls.stats_api_errors = cls.api_errors,
            !.store = [update_with_total(@, 100, reg,
                                         [cls EXCEPT !.stats_api_errors = cls.api_errors])
                       EXCEPT !.status = "completed"],
            !.main.pc = "done"])
    /\ UNCHANGED <<scanFrame, cfg, cancelVars, kw, reg, consumer_pc, ctasks>>

\* ---------------------------------------------- _run_member_topic_scan
\* fetch_member_* build every contribution with matched_keywords = []
MemberRaw(ids) == [i \in DOMAIN ids |-> [id |-> ids[i], matched_keywords |-> <<>>]]

\* line 620-626: the pre-filter
RECURSIVE Prefilter(_, _)
Prefilter(cs, want) ==
    IF cs = <<>> THEN <<>>
    ELSE IF item_is_procedural(Head(cs)) = want
         THEN <<Head(cs)>> \o Prefilter(Tail(cs), want)
         ELSE Prefilter(Tail(cs), want)

\* line 25 + (classified_count / max(len(to_classify), 1)) * 70 of line 680, 724
mt_progress(b) ==
    25 + (b.cls.classified_count * 70) \div (IF Len(b.main.to_classify) > 1
                                             THEN Len(b.main.to_classify) ELSE 1)

\* line 586-647: progress 10 is written, the members' activity is fetched and
\* deduplicated; a set token ends the run; else progress 25 is written, the
\* procedural items are audited, the rest is to classify.
mt_fetch_done(ids) ==
    /\ main.pc = "mt_fetch"
    /\ LET d == dedup_contributions(MemberRaw(ids), NoSeen, <<>>) IN
       IF cancel_event
       THEN /\ SetBundle([Bundle EXCEPT
                    !.store = [update_with_stats(@, 10, reg, cls) EXCEPT !.status = "cancelled"],
                    !.main.pc = "done",
                    !.hist = [Observe(@) EXCEPT !.member_fetches = @ + 1]])
            /\ UNCHANGED reg
       ELSE /\ reg' = [reg EXCEPT !.seen = d.seen,
                                  !.total_api_results = Len(d.order),
                                  !.procedural_items = Prefilter(d.order, TRUE),
                                  !.queued_for_classify = Len(Prefilter(d.order, FALSE))]
            /\ SetBundle([Bundle EXCEPT
                    !.main.to_classify = Prefilter(d.order, FALSE),
                    !.main.idx = 1,
                    !.main.pc = "mt_loop",
                    !.hist.member_fetches = @ + 1,
                    !.store = [update_with_stats(@, 25, reg', cls) EXCEPT
                                  !.audit = insert_audit_log_batch(@, Prefilter(d.order, TRUE),
                                                                   "procedural_filter")]])
    /\ UNCHANGED <<scanFrame, cfg, cancelVars, kw, consumer_pc, ctasks>>

\* line 659-663: with api_paused set the loop body has no await: every
\* remaining item goes to api_failed in one go
RECURSIVE RouteAll(_, _)
RouteAll(failed, cs) ==
    IF cs = <<>> THEN failed ELSE RouteAll(RouteToRetry(failed, Head(cs)), Tail(cs))

\* line 655-666 and 728-733: for c in to_classify
MtItem(b) ==
    IF b.main.idx > Len(b.main.to_classify) \/ cancel_event
    THEN PostPipeline(b)
    ELSE IF b.cls.api_paused
         THEN LET rest == SubSeq(b.main.to_classify, b.main.idx, Len(b.main.to_classify))
                  failed == RouteAll(b.cls.api_failed, rest)
              IN PostPipeline([b EXCEPT !.cls.api_failed = failed,
                                        !.cls.stats_api_errors = Len(failed),
                                        !.main.idx = Len(b.main.to_classify) + 1])
         ELSE [b EXCEPT !.main.pc = "mt_call", !.hist.calls_started = @ + 1]

\* the loop goes on after an await
mt_loop ==
    /\ main.pc = "mt_loop"
    /\ SetBundle(MtItem(Bundle))
    /\ UNCHANGED <<scanFrame, cfg, cancelVars, kw, reg, consumer_pc, ctasks>>

\* line 666-726: the call ends
mt_call_returned(o) ==
    /\ main.pc = "mt_call"
    /\ LET c == main.to_classify[main.idx]
           b == [Bundle EXCEPT !.cls.api_errors = @ + o.api_errors, !.main.idx = @ + 1,
                               !.hist.decided[c] = IF o.kind = "return"
                                                   THEN Decision(o.value) ELSE @]
       IN IF o.kind = "raise"
          THEN LET b1 == [b EXCEPT !.cls.api_failed = RouteToRetry(@, c),
                                   !.cls.api_paused = TRUE,
                                   !.cls.stats_api_errors = Len(cls.api_failed) + 1,
                                   !.hist.routed[c] = @ + 1,
                                   !.hist.signalled = TRUE,
                                   !.main.pc = "mt_loop"]
               IN SetBundle([b1 EXCEPT !.store =
                        update_with_total(@, Min(mt_progress(b1), 95), reg, b1.cls)])
          ELSE IF o.kind = "return" /\ UnpackOk(o.value)
               THEN LET k == Classified([b EXCEPT !.cls.classified_count = @ + 1], c, o.value)
                        b1 == [k EXCEPT !.cls.stats_classified_relevant = k.cls.total_relevant,
                                        !.main.pc = "mt_loop"]
                    IN SetBundle([b1 EXCEPT !.store =
                            update_with_total(@, Min(mt_progress(b1), 95), reg, b1.cls)])
               ELSE SetBundle(RunRaises(b))
    /\ UNCHANGED <<scanFrame, cfg, cancelVars, kw, reg, consumer_pc, ctasks>>

\* ------------------------------------------------------------ ScanNext
TopicsNext ==
    \/ \E k \in KW : search_keyword_begin(k)
    \/ \E k \in KW : search_all_dispatch(k)
    \/ \E k \in KW, results \in ResultSeqs : search_keyword_admit(k, results)
    \/ \E k \in KW : search_keyword_written(k)
    \/ \E k \in KW : search_keyword_raises(k)
    \/ run_all_searches_done
    \/ classification_consumer_loop
    \/ classification_consumer_wake
    \/ classification_consumer_gather
    \/ \E n \in 1..Len(ctasks) : classify_one_begin(n)
    \/ \E n \in 1..Len(ctasks) : classify_one_paused_lock(n)
    \/ \E n \in 1..Len(ctasks) : classify_one_stagger_done(n)
    \/ \E n \in 1..Len(ctasks), o \in ClassifyOutcomes : classify_one_returned(n, o)
    \/ \E n \in 1..Len(ctasks) : classify_one_err_lock(n)
    \/ \E n \in 1..Len(ctasks) : classify_one_err_written(n)
    \/ run_scan_inner_join
    \/ run_scan_inner_search_raised

MemberTopicNext ==
    \/ \E ids \in ResultSeqs : mt_fetch_done(ids)
    \/ mt_loop
    \/ \E o \in ClassifyOutcomes : mt_call_returned(o)

\* ------------------------------------------------ the empty selection
\* _run_scan_inner line 147-151: status error with a message, then return
run_no_selection ==
    /\ main.pc = "no_selection"
    /\ SetBundle([Bundle EXCEPT !.store.status = "error",
                                !.store.error_message = "No topics or member selected",
                                !.main.pc = "done"])
    /\ UNCHANGED <<scanFrame, cfg, cancelVars, kw, reg, consumer_pc, ctasks>>

\* ----------------------------------------------- _run_member_only_scan
\* (mutation) the contributions are not filtered by member
OfMembers_All(ids, member_id_set) == ids

\* line 864-865: the contributions of the requested members, in order
RECURSIVE OfMembers(_, _)
OfMembers(ids, member_id_set) ==
    IF ids = <<>> THEN <<>>
    ELSE IF member_id(Head(ids)) \in member_id_set
         THEN <<Head(ids)>> \o OfMembers(Tail(ids), member_id_set)
         ELSE OfMembers(Tail(ids), member_id_set)

\* line 838-880: progress 10 is written and the members' activity fetched; a
\* set token ends the run; else the count is kept and progress 60 written
mo_fetch_done(ids) ==
    /\ main.pc = "mo_fetch"
    /\ IF cancel_event
       THEN /\ SetBundle([Bundle EXCEPT
                    !.store = [update_with_stats(@, 10, reg, cls) EXCEPT !.status = "cancelled"],
                    !.main.pc = "done",
                    !.hist = [Observe(@) EXCEPT !.member_fetches = @ + 1]])
            /\ UNCHANGED reg
       ELSE /\ reg' = [reg EXCEPT !.total_api_results =
                                      Len(OfMembers(ids, cfg.target_member_ids))]
            /\ SetBundle([Bundle EXCEPT
                    !.main.contributions = OfMembers(ids, cfg.target_member_ids),
                    !.main.idx = 1,
                    !.main.pc = "mo_loop",
                    !.store = update_with_stats(@, 60, reg', cls),
                    !.hist.member_fetches = @ + 1])
    /\ UNCHANGED <<scanFrame, cfg, cancelVars, kw, consumer_pc, ctasks>>

\* line 885-889 and 918-925: the storing loop: a set token or the end of the
\* list leaves it, and status completed is written; else summarise is called
mo_loop ==
    /\ main.pc = "mo_loop"
    /\ IF main.idx > Len(main.contributions) \/ cancel_event
       THEN SetBundle([Bundle EXCEPT !.store = [update_with_stats(@, 100, reg, cls)
                                                EXCEPT !.status = "completed",
                                                       !.total_relevant = main.idx - 1],
                                     !.main.pc = "done",
                                     !.cls.total_relevant = Len(store.results),
                                     !.hist = IF main.idx > Len(main.contributions)
                                              THEN @ ELSE Observe(@)])
       ELSE SetBundle([Bundle EXCEPT !.main.pc = "mo_summarise",
                                     !.hist.summarise_calls = @ + 1])
    /\ UNCHANGED <<scanFrame, cfg, cancelVars, kw, reg, consumer_pc, ctasks>>

\* classifier.summarise line 278-360: every return gives the pair
\* (summary, usage); the API's failures end in the fallback pair
summarise == "tuple"

\* line 889-909: summary = await classifier.summarise(c); insert_result is
\* called with the whole value as summary and confidence "raw"
mo_summarised ==
    /\ main.pc = "mo_summarise"
    /\ LET c == main.contributions[main.idx] IN
       SetBundle([Bundle EXCEPT
            !.main.pc = "mo_insert",
            !.main.row = [scan_id |-> scan_id_of_run, dedup_key |-> c,
                          first_seen_scan_id |-> first_seen(store.results, scan_id_of_run, c),
                          member_id |-> member_id(c), confidence |-> "raw",
                          summary |-> summarise]])
    /\ UNCHANGED <<scanFrame, cfg, cancelVars, kw, reg, consumer_pc, ctasks>>

\* sqlite3 binds None, int, float, str and bytes; any other type raises
\* ProgrammingError (Error binding parameter)
sqlite_binds(type) == type \in {"None", "int", "float", "str", "bytes"}

\* database.insert_result line 732-761 for the row of the storing loop, and
\* the progress write of line 911-915
mo_insert_done ==
    /\ main.pc = "mo_insert"
    /\ IF sqlite_binds(main.row.summary)
       THEN LET stored == main.idx
                total_to_store == Len(main.contributions)
                progress == 60 + (stored * 35) \div (IF total_to_store > 1
                                                     THEN total_to_store ELSE 1)
                st == [store EXCEPT !.results = InsertOrIgnore(@, main.row)]
            IN SetBundle([Bundle EXCEPT
                    !.store = IF stored % 5 = 0 \/ stored = total_to_store
                              THEN update_with_stats(st, Min(progress, 95), reg, cls)
                              ELSE st,
                    !.main.idx = @ + 1,
                    !.main.pc = "mo_loop"])
       ELSE SetBundle(RunRaises(Bundle))
    /\ UNCHANGED <<scanFrame, cfg, cancelVars, kw, reg, consumer_pc, ctasks>>

MemberOnlyNext ==
    \/ run_no_selection
    \/ \E ids \in ResultSeqs : mo_fetch_done(ids)
    \/ mo_loop
    \/ mo_summarised
    \/ mo_insert_done

RetryNext ==
    \/ retry_sleep_done
    \/ \E o \in ClassifyOutcomes : retry_call_returned(o)
    \/ perm_audit
    \/ finalize

CancelNext ==
    \/ cancel_scan_check
    \/ cancel
    \/ cancel_scan_written

ScanNext == CancelNext \/ TopicsNext \/ MemberTopicNext \/ MemberOnlyNext \/ RetryNext

\* ======================================================================
\* The results table under concurrent insert_result calls
\* ======================================================================
StoreScans == 1..MaxStoreScans
Writers == 1..2

StoreIdle ==
    /\ results_table = <<>>
    /\ writer = [w \in Writers |-> [pc |-> "idle", scan_id |-> 0, dedup_key |-> 0,
                                     first_seen_scan_id |-> 0]]
    /\ persists = 0

InFlight == Cardinality({w \in Writers : writer[w].pc # "idle"})

\* insert_result line 722-730: the call is made and the SELECT has answered
insert_result_select(w, scan_id, dedup_key) ==
    /\ writer[w].pc = "idle"
    /\ persists + InFlight < MaxPersists
    /\ writer' = [writer EXCEPT ![w] =
                     [pc |-> "selected", scan_id |-> scan_id, dedup_key |-> dedup_key,
                      first_seen_scan_id |-> first_seen(results_table, scan_id, dedup_key)]]
    /\ UNCHANGED <<storeFrame, results_table, persists>>

\* line 732-761: the INSERT OR IGNORE, the commit and the return
insert_result_insert(w) ==
    /\ writer[w].pc = "selected"
    /\ results_table' = InsertOrIgnore(results_table,
                            [scan_id |-> writer[w].scan_id,
                             dedup_key |-> writer[w].dedup_key,
                             first_seen_scan_id |-> writer[w].first_seen_scan_id])
    /\ writer' = [writer EXCEPT ![w].pc = "idle"]
    /\ persists' = persists + 1
    /\ UNCHANGED storeFrame

StoreNext ==
    \/ \E w \in Writers, s \in StoreScans, k \in Ids : insert_result_select(w, s, k)
    \/ \E w \in Writers : insert_result_insert(w)

\* ======================================================================
\* The rate-limited fetcher: ParliamentAPIClient._get
\* ======================================================================
\* Every caller has its own ParliamentAPIClient instance (each run and each
\* request handler constructs one); _host_semaphores is a class attribute, one
\* dict for all of them.
Callers == 1..MaxCallers
Hosts == 1..MaxHosts

\* what one request attempt can give: a JSON body, HTTP 429, another HTTP
\* error status, a network error (httpx.RequestError), or a 2xx answer whose
\* body is not JSON (resp.json() raises ValueError)
Attempts == {"json", "429", "http_error", "request_error", "bad_body"}

FetchIdle ==
    /\ host_semaphores = [h \in Hosts |-> 0]
    /\ sems = <<>>
    /\ get = [c \in Callers |-> [pc |-> "idle", host |-> 0, sem |-> 0, attempt |-> 0,
                                  requests |-> 0, seen |-> {}, result |-> "none"]]
    /\ fetches = 0

\* (mutation) the dict is never found to hold the host
HostKnown_Never(h) == FALSE

\* _get_host_sem line 108: host not in cls._host_semaphores
HostKnown(h) == host_semaphores[h] # 0

\* _get_host_sem line 103-110: the host's semaphore, created on first use
get_host_sem(h) ==
    IF HostKnown(h)
    THEN [sems |-> sems, index |-> host_semaphores[h]]
    ELSE [sems |-> Append(sems, [host |-> h, value |-> HOST_CONCURRENCY]),
          index |-> Len(sems) + 1]

\* asyncio.Semaphore.acquire returns at once when the value is positive
Acquirable(ss, i) == ss[i].value > 0

\* line 114-118: host_sem = self._get_host_sem(url); async with host_sem: the
\* first attempt begins with asyncio.sleep(REQUEST_DELAY)
get_begin(c, h) ==
    /\ get[c].pc \in {"idle", "ended"}
    /\ fetches < MaxFetches
    /\ fetches' = fetches + 1
    /\ LET g == get_host_sem(h) IN
       /\ host_semaphores' = [host_semaphores EXCEPT ![h] = g.index]
       /\ IF Acquirable(g.sems, g.index)
          THEN /\ sems' = [g.sems EXCEPT ![g.index].value = @ - 1]
               /\ get' = [get EXCEPT ![c] = [pc |-> "sleeping", host |-> h, sem |-> g.index,
                                             attempt |-> 0, requests |-> 0, seen |-> {},
                                             result |-> "none"]]
          ELSE /\ sems' = g.sems
               /\ get' = [get EXCEPT ![c] = [pc |-> "waiting", host |-> h, sem |-> g.index,
                                             attempt |-> 0, requests |-> 0, seen |-> {},
                                             result |-> "none"]]
    /\ UNCHANGED fetchFrame

\* a caller suspended in acquire gets the semaphore
get_acquired(c) ==
    /\ get[c].pc = "waiting"
    /\ Acquirable(sems, get[c].sem)
    /\ sems' = [sems EXCEPT ![get[c].sem].value = @ - 1]
    /\ get' = [get EXCEPT ![c].pc = "sleeping"]
    /\ UNCHANGED <<fetchFrame, host_semaphores, fetches>>

\* leaving the async with block: the semaphore is released, the call is over
EndCall(c, seen, result) ==
    /\ sems' = [sems EXCEPT ![get[c].sem].value = @ + 1]
    /\ get' = [get EXCEPT ![c].pc = "ended", ![c].attempt = 0, ![c].seen = seen,
                           ![c].result = result]

\* line 116-119 and 139: the sleeps are over; for attempt in range(max_retries):
\* the next request is sent, or the loop is exhausted and None is returned
get_send(c) ==
    /\ get[c].pc = "sleeping"
    /\ IF get[c].attempt < max_retries
       THEN /\ get' = [get EXCEPT ![c].pc = "request", ![c].requests = @ + 1]
            /\ UNCHANGED sems
       ELSE EndCall(c, get[c].seen, "None")
    /\ UNCHANGED <<fetchFrame, host_semaphores, fetches>>

\* (mutation) a network error is not caught
Caught_StatusOnly(a) == a \in {"429", "http_error"}

\* line 122 and 133: except httpx.HTTPStatusError, except httpx.RequestError
Caught(a) == a \in {"429", "http_error", "request_error"}

\* line 119-138: the request is answered
get_answered(c, a) ==
    /\ get[c].pc = "request"
    /\ LET seen == get[c].seen \cup {a} IN
       IF a = "json"
       THEN EndCall(c, seen, "json")
       ELSE IF ~Caught(a)
       THEN EndCall(c, seen, "raised")
       ELSE IF a = "429" \/ get[c].attempt < max_retries - 1
       THEN /\ get' = [get EXCEPT ![c].pc = "sleeping", ![c].attempt = @ + 1,
                                   ![c].seen = seen]
            /\ UNCHANGED sems
       ELSE EndCall(c, seen, "None")
    /\ UNCHANGED <<fetchFrame, host_semaphores, fetches>>

FetchNext ==
    \/ \E c \in Callers, h \in Hosts : get_begin(c, h)
    \/ \E c \in Callers : get_acquired(c)
    \/ \E c \in Callers : get_send(c)
    \/ \E c \in Callers, a \in Attempts : get_answered(c, a)

\* ======================================================================
\* The fan-out over the sources: search_all and fetch_member_all
\* ======================================================================
\* the sources, in the order of all_sources; fetch_member_all has fewer
all_sources(fn) == IF fn = "search_all" THEN 1..MaxSources ELSE 1..(MaxSources - 1)

SearchIdle ==
    /\ sa = [pc |-> "idle", fn |-> "none", sources |-> {}, cancel_event |-> FALSE,
             results |-> <<>>]
    /\ src = [s \in 1..MaxSources |->
                [pc |-> "none", outcome |-> "none", fetched |-> <<>>, found |-> <<>>]]

\* search_all line 769-798, fetch_member_all line 1117-1142: the enabled
\* sources are filtered and one coroutine per source is handed to gather
search_call(fn, enabled_sources, token) ==
    /\ sa.pc = "idle"
    /\ LET sources == {s \in all_sources(fn) : s \in enabled_sources} IN
       /\ sa' = [pc |-> "gathering", fn |-> fn, sources |-> sources,
                 cancel_event |-> token, results |-> <<>>]
       /\ src' = [s \in 1..MaxSources |->
                    [src[s] EXCEPT !.pc = IF s \in sources THEN "pending" ELSE "none"]]
    /\ UNCHANGED searchFrame

\* the caller's token is set while the call runs
search_token_set ==
    /\ sa.pc = "gathering"
    /\ ~sa.cancel_event
    /\ sa' = [sa EXCEPT !.cancel_event = TRUE]
    /\ UNCHANGED <<searchFrame, src>>

\* _search_one line 785-789, _fetch_one line 1128-1132: the token is read once,
\* then the source's function is awaited
search_one_begin(s) ==
    /\ src[s].pc = "pending"
    /\ src' = [src EXCEPT ![s] = IF sa.cancel_event
                                 THEN [@ EXCEPT !.pc = "returned", !.outcome = "skipped"]
                                 ELSE [@ EXCEPT !.pc = "running"]]
    /\ UNCHANGED <<searchFrame, sa>>

\* the source's function fetches one more page of contributions
source_page(s) ==
    /\ src[s].pc = "running"
    /\ Len(src[s].fetched) < MaxPages
    /\ src' = [src EXCEPT ![s].fetched = Append(@, <<s, Len(@) + 1>>)]
    /\ UNCHANGED <<searchFrame, sa>>

\* line 789-791, 1132-1134: found = await method(...); return found
source_return(s) ==
    /\ src[s].pc = "running"
    /\ src' = [src EXCEPT ![s] = [@ EXCEPT !.pc = "returned", !.outcome = "returned",
                                            !.found = src[s].fetched]]
    /\ UNCHANGED <<searchFrame, sa>>

\* (mutation) the handler lets the exception through
search_one_except_Reraise(t) == [t EXCEPT !.pc = "raised", !.outcome = "raised"]

\* line 792-794, 1135-1137: except Exception: log, return []
search_one_except(t) == [t EXCEPT !.pc = "returned", !.outcome = "raised", !.found = <<>>]

\* the source's function raises
source_raise(s) ==
    /\ src[s].pc = "running"
    /\ src' = [src EXCEPT ![s] = search_one_except(@)]
    /\ UNCHANGED <<searchFrame, sa>>

\* line 800-802, 1143-1145: for found in source_results: results.extend(found)
RECURSIVE extend_all(_, _)
extend_all(n, sources) ==
    IF n = 0 THEN <<>>
    ELSE extend_all(n - 1, sources) \o (IF n \in sources THEN src[n].found ELSE <<>>)

\* line 797-804, 1140-1146: asyncio.gather(*tasks) without return_exceptions
\* raises the first exception of a task, else gives the lists in source order
search_gathered ==
    /\ sa.pc = "gathering"
    /\ IF \E s \in sa.sources : src[s].pc = "raised"
       THEN sa' = [sa EXCEPT !.pc = "raised"]
       ELSE /\ \A s \in sa.sources : src[s].pc = "returned"
            /\ sa' = [sa EXCEPT !.pc = "returned",
                                 !.results = extend_all(MaxSources, sa.sources)]
    /\ UNCHANGED <<searchFrame, src>>

SearchNext ==
    \/ \E fn \in {"search_all", "fetch_member_all"}, enabled_sources \in SUBSET (1..MaxSources),
          token \in BOOLEAN : search_call(fn, enabled_sources, token)
    \/ search_token_set
    \/ \E s \in 1..MaxSources : search_one_begin(s)
    \/ \E s \in 1..MaxSources : source_page(s)
    \/ \E s \in 1..MaxSources : source_return(s)
    \/ \E s \in 1..MaxSources : source_raise(s)
    \/ search_gathered

\* ======================================================================
\* The procedural pre-filter: classifier.is_procedural
\* ======================================================================
\* A text is a sequence of chunks of characters: " " and "\n" are white
\* space, every other chunk is a run of non-space characters, and chunks that
\* follow each other without white space belong to one word.
IsSpace(ch) == ch \in {" ", "\n"}

\* the words, one space apart
Phrase(words) ==
    [i \in 1..(2 * Len(words) - 1) |-> IF i % 2 = 1 THEN words[(i + 1) \div 2] ELSE " "]

\* str.strip()
RECURSIVE lstrip(_)
lstrip(text) == IF text # <<>> /\ IsSpace(Head(text)) THEN lstrip(Tail(text)) ELSE text

RECURSIVE rstrip(_)
rstrip(text) ==
    IF text # <<>> /\ IsSpace(text[Len(text)])
    THEN rstrip(SubSeq(text, 1, Len(text) - 1)) ELSE text

strip(text) == rstrip(lstrip(text))

\* str.split(): the maximal runs of non-space chunks
RECURSIVE split(_)
split(text) ==
    LET t == lstrip(text)
        end == CHOOSE n \in 1..(Len(t) + 1) :
                   /\ n = Len(t) + 1 \/ IsSpace(t[n])
                   /\ \A i \in 1..(n - 1) : ~IsSpace(t[i])
    IN IF t = <<>> THEN <<>>
       ELSE <<SubSeq(t, 1, end - 1)>> \o split(SubSeq(t, end, Len(t)))

\* classifier.py line 33-41: the strings the seven patterns accept at the start
\* of a text (\d+ up to MaxDigits digits)
PROCEDURAL_PATTERNS ==
    {Phrase(<<a, b, c, d>>) : a \in {"the", "this"}, b \in {"question", "bill", "motion"},
                              c \in {"is", "was"},
                              d \in {"put", "agreed", "negatived", "read"}}
    \cup {Phrase(<<"I", "refer", "the">>) \o <<" ">> \o h \o <<" ", m>> :
             h \in {<<"honourable">>, <<"right", " ", "honourable">>, <<"hon", ".">>},
             m \in {"member", "gentleman", "lady"}}
    \cup {<<o>> \o c \o <<" ", "that">> : o \in {"ordered", "resolved"}, c \in {<<>>, <<",">>}}
    \cup {<<q, " ", a, " ">> \o n \o <<"agreed">> :
             q \in {"question", "bill"}, a \in {"accordingly", "put"},
             n \in {<<>>, <<"and", " ">>}}
    \cup {<<"the", " ">> \o d \o <<sp, " ">> :
             d \in {<<>>, <<"deputy", " ">>}, sp \in {"speaker", "chairman", "chair"}}
    \cup {Phrase(<<"I", "beg", "to", "move">>)}
    \cup {c \o <<" ">> \o [i \in 1..n |-> "1"] \o <<" ", r>> :
             c \in {<<"clause">>, <<"amendment">>, <<"new", " ", "clause">>},
             n \in 1..MaxDigits, r \in {"read", "ordered"}}

\* re.IGNORECASE: the chunk in lower case
casefold(ch) ==
    CASE ch = "I" -> "i"
      [] ch = "BEG" -> "beg"
      [] ch = "Move" -> "move"
      [] ch = "Ordered" -> "ordered"
      [] ch = "The" -> "the"
      [] OTHER -> ch

\* line 42 and 155: PROCEDURAL_RE.match(stripped): every alternative is
\* anchored at the start of the string
PROCEDURAL_RE_match(stripped) ==
    \E pat \in PROCEDURAL_PATTERNS :
        /\ Len(pat) <= Len(stripped)
        /\ \A i \in 1..Len(pat) : casefold(stripped[i]) = casefold(pat[i])

\* (mutation) the two thresholds swapped
min_words_Swapped(source_type) == IF source_type = "hansard" THEN 8 ELSE 5

\* line 152: min_words = 5 if source_type == "hansard" else 8
min_words(source_type) == IF source_type = "hansard" THEN 5 ELSE 8

\* classifier.py line 145-155
is_procedural(text, source_type) ==
    LET stripped == strip(text)
    IN IF Len(split(stripped)) < min_words(source_type)
       THEN TRUE
       ELSE PROCEDURAL_RE_match(stripped)

\* Contribution.source_type as the sources set it, and the parameter's default
SourceTypes ==
    {"hansard", "written_question", "written_statement", "edm", "bill", "division", ""}

\* The texts the function is applied to: an opening, then n more words, with
\* white space around it. Each opening is labelled with the number of words it
\* has and with whether it starts with an administrative pattern.
Openings ==
    { [chunks |-> <<>>, words |-> 0, admin |-> FALSE],
      [chunks |-> Phrase(<<"I", "beg", "to", "move">>), words |-> 4, admin |-> TRUE],
      [chunks |-> Phrase(<<"i", "BEG", "to", "Move">>), words |-> 4, admin |-> TRUE],
      [chunks |-> Phrase(<<"I", "beg", "to", "move">>) \o <<"x">>, words |-> 4, admin |-> TRUE],
      [chunks |-> Phrase(<<"x", "I", "beg", "to", "move">>), words |-> 5, admin |-> FALSE],
      [chunks |-> <<"I", " ", " ", "beg", " ", "to", " ", "move">>, words |-> 4,
       admin |-> FALSE],
      [chunks |-> <<"I", "\n", "beg", " ", "to", " ", "move">>, words |-> 4, admin |-> FALSE],
      [chunks |-> <<"Ordered", ",", " ", "that">>, words |-> 2, admin |-> TRUE],
      [chunks |-> <<"The", " ", "chair", "x">>, words |-> 2, admin |-> FALSE],
      [chunks |-> Phrase(<<"the", "deputy", "speaker", "x">>), words |-> 4, admin |-> TRUE],
      [chunks |-> <<"clause", " ", "1", "1", " ", "read">>, words |-> 3, admin |-> TRUE],
      [chunks |-> Phrase(<<"The", "question", "was", "put">>), words |-> 4, admin |-> TRUE] }

Filler(n) == [i \in 1..(2 * n) |-> IF i % 2 = 1 THEN " " ELSE "x"]

ProcInputs ==
    { [pc |-> "input", text |-> lead \o o.chunks \o Filler(n) \o trail,
       source_type |-> st, words |-> o.words + n, admin |-> o.admin, result |-> FALSE] :
        lead \in {<<>>, <<" ">>, <<"\n", " ">>}, o \in Openings, n \in 0..MaxWords,
        trail \in {<<>>, <<" ", "\n">>}, st \in SourceTypes }

ProcIdle ==
    proc = [pc |-> "idle", text |-> <<>>, source_type |-> "", words |-> 0, admin |-> FALSE,
            result |-> FALSE]

is_procedural_call ==
    /\ proc.pc = "input"
    /\ proc' = [proc EXCEPT !.pc = "done", !.result = is_procedural(proc.text, proc.source_type)]
    /\ UNCHANGED procFrame

ProcNext == is_procedural_call

\* ======================================================================
\* One call of TopicClassifier.classify
\* ======================================================================
CallIdle == call = [pc |-> "idle", resp |-> <<>>, out |-> <<>>]

\* the answers the API gives to the (up to three) requests of the call
CallInputs == {[pc |-> "input", resp |-> r, out |-> <<>>] : r \in [1..3 -> Responses]}

classify_call ==
    /\ call.pc = "input"
    /\ call' = [call EXCEPT !.pc = "done", !.out = classify(call.resp)]
    /\ UNCHANGED callFrame

CallNext == classify_call

\* ------------------------------------------------------------------- Next
External ==
    \/ \E r \in Requests : create_scan(r)
    \/ \E a \in Alerts : alert_create_scan(a)
    \/ \E s \in ScanIds : cancel_scan_begin(s)

Internal ==
    \/ \E r \in Requests : start_scan_check(r)
    \/ \E r \in Requests : start_scan_launch(r)
    \/ \E a \in Alerts : alert_run_scan(a)
    \/ \E t \in TaskIds : run_scan_enter(t[1], t[2])
    \/ \E t \in TaskIds : run_scan_inner_begin(t[1], t[2])
    \/ \E t \in TaskIds, o \in RunOutcomes : run_scan_finally(t[1], t[2], o)
    \/ cancel_scan_read
    \/ cancel_scan_write

Next == External \/ Internal

\* no pipeline is modelled: the component is at rest
ScanOff ==
    /\ cfg = [mode |-> "none", selected_topics |-> FALSE, target_member_ids |-> {},
              stagger |-> FALSE, procedural |-> {}]
    /\ ScanIdle("done")

\* Admission: the runs' pipelines are abstracted to their terminal status.
Init ==
    /\ AdmInit
    /\ ScanOff
    /\ StoreIdle
    /\ FetchIdle
    /\ SearchIdle
    /\ ProcIdle
    /\ CallIdle

Spec == Init /\ [][Next]_vars

\* One run's pipeline, in topics or member+topics mode.
ScanSpecInit == AdmInit /\ ScanInit /\ StoreIdle /\ FetchIdle /\ SearchIdle /\ ProcIdle /\ CallIdle

ScanSpec == ScanSpecInit /\ [][ScanNext]_vars

\* The results table written by concurrent insert_result calls.
StoreInit == AdmInit /\ ScanOff /\ StoreIdle /\ FetchIdle /\ SearchIdle /\ ProcIdle /\ CallIdle

StoreSpec == StoreInit /\ [][StoreNext]_vars

\* The fetcher under concurrent callers.
FetchInit == AdmInit /\ ScanOff /\ StoreIdle /\ FetchIdle /\ SearchIdle /\ ProcIdle /\ CallIdle

FetchSpec == FetchInit /\ [][FetchNext]_vars

\* One search_all or fetch_member_all call over sources that may raise.
SearchInit == AdmInit /\ ScanOff /\ StoreIdle /\ FetchIdle /\ SearchIdle /\ ProcIdle /\ CallIdle

SearchSpec == SearchInit /\ [][SearchNext]_vars

\* is_procedural applied to one text and source type.
ProcInit ==
    AdmInit /\ ScanOff /\ StoreIdle /\ FetchIdle /\ SearchIdle /\ proc \in ProcInputs /\ CallIdle

ProcSpec == ProcInit /\ [][ProcNext]_vars

\* classify applied to every sequence of answers of the API.
CallInit ==
    AdmInit /\ ScanOff /\ StoreIdle /\ FetchIdle /\ SearchIdle /\ ProcIdle /\ call \in CallInputs

CallSpec == CallInit /\ [][CallNext]_vars

\* ======================================================================
\* Claims
\* ======================================================================
Executing ==
    Cardinality({t \in TaskIds : tasks[t[1]][t[2]].pc \in {"entered", "inner"}})

\* C1: at any moment at most MAX_CONCURRENT_SCANS (2) runs have entered
\* run_scan and not yet left it.
C1_AtMostMaxExecuting == Executing <= MAX_CONCURRENT_SCANS

WasMarkedQueued(s) == s \in Range(queued_order)

\* C2: a start request that found fewer than 2 runs in flight has started its
\* pipeline; one that found 2 in flight has marked the run queued and has not
\* started its pipeline.
C2_StartedOrQueued ==
    \A r \in Requests :
        req[r].pc = "done" =>
            IF WasMarkedQueued(req[r].scan)
            THEN tasks[req[r].scan] = <<>>
            ELSE tasks[req[r].scan] # <<>>

OldestQueued(s) ==
    /\ status[s] = "queued"
    /\ \A t \in ScanIds : t < s => status[t] # "queued"

SomeRunLeft == \E t \in TaskIds : tasks[t[1]][t[2]].pc = "returned"

\* the event loop has no coroutine left to run: only a new request can act
Quiescent == ~ENABLED Internal

\* C3: when a run has finished, a run is queued and capacity is available, the
\* oldest queued run starts its pipeline with no further request: the event
\* loop does not run out of steps while that run has not been started.
C3_QueuedStartsWithoutRequest ==
    \A s \in ScanIds :
        (SomeRunLeft /\ OldestQueued(s) /\ active_scans < MAX_CONCURRENT_SCANS /\ Quiescent)
            => tasks[s] # <<>>

QueuedBefore(t, s) ==
    \E i, j \in DOMAIN queued_order :
        i < j /\ queued_order[i] = t /\ queued_order[j] = s

\* C4: a run queued later never starts its pipeline while a run that was
\* created and queued earlier is still queued.
C4_FifoPromotion ==
    [][\A s \in ScanIds :
          Len(tasks'[s]) > Len(tasks[s]) =>
              ~ \E t \in ScanIds : t < s /\ QueuedBefore(t, s) /\ status[t] = "queued"]_vars

Occurrences(q, c) == Cardinality({i \in DOMAIN q : q[i] = c})

\* C5: within one run every identity is put on the classification queue at
\* most once, whatever the keyword searches return and in whatever order.
C5_EnqueuedAtMostOnce ==
    \A c \in Ids : Occurrences(reg.classify_queue, c) <= 1

Admitted(k) == kw[k].pc \in {"writing", "done"}

C5_Witness ==
    \E c \in Ids :
        /\ Occurrences(reg.classify_queue, c) = 1
        /\ \A k \in KW : Admitted(k) /\ c \in Range(kw[k].results)

\* the keywords of all contributions admitted so far with identity c
Contributed(c) == {k \in KW : Admitted(k) /\ c \in Range(kw[k].results)}

\* C6: the registry entry of an identity holds exactly the union of the
\* keywords of the contributions admitted with that identity, each once.
C6_KeywordsUnion ==
    \A c \in DOMAIN reg.seen :
        /\ Range(reg.seen[c]) = Contributed(c)
        /\ Len(reg.seen[c]) = Cardinality(Range(reg.seen[c]))

C6_Witness ==
    \E c \in DOMAIN reg.seen, k \in KW :
        /\ Len(reg.seen[c]) = MaxKeywords
        /\ Occurrences(kw[k].results, c) > 1

InFailedLists(c) == c \in Range(cls.api_failed) \cup Range(main.still_failed)

\* C7: when the transient failure of an item's classifier call is handled, the
\* item is on the failed-item list, has no result row and no not-relevant
\* audit row (of a discard or of a permanent failure), and the discarded
\* counter has not moved.
C7_TransientToRetry ==
    [][\A c \in Ids :
          hist'.routed[c] > hist.routed[c] =>
              /\ InFailedLists(c)'
              /\ c \notin ResultKeys(store'.results)
              /\ store'.audit[c]["not_relevant"] = 0
              /\ store'.audit[c]["failed_all_retries"] = 0
              /\ cls'.classified_discarded = cls.classified_discarded]_vars

C7_Witness ==
    \E c \in Ids : hist.routed[c] > 0 /\ c \in Range(cls.api_failed) /\ cls.api_paused

\* C8: once a classifier call of the main pipeline has signalled a persistent
\* failure, the main pipeline starts no further classifier call.
C8_NoCallAfterFailure ==
    [][hist.signalled => hist'.calls_started = hist.calls_started]_vars

Pow2(n) == IF n = 0 THEN 1 ELSE IF n = 1 THEN 2 ELSE IF n = 2 THEN 4
           ELSE IF n = 3 THEN 8 ELSE IF n = 4 THEN 16 ELSE 32

WaitsFollowFormula ==
    \A i \in DOMAIN hist.waits : hist.waits[i] = Min(30 * Pow2(i - 1), 300)

RetriesExhausted == main.pc = "perm_audit" /\ ~cancel_event

\* C9 as stated: the wait before round N is min(30 * 2^N, 300) and, when the
\* rounds run out, the waits slept were 30, 60, 120, 240 and then 300.
C9_WaitsIncluding300 ==
    /\ WaitsFollowFormula
    /\ RetriesExhausted => hist.waits = <<30, 60, 120, 240, 300>>

\* C9 (amended): the wait before round N is min(30 * 2^N, 300); only rounds
\* 0..3 exist, so the waits slept are 30, 60, 120, 240 and none exceeds 300.
C9_Waits ==
    /\ WaitsFollowFormula
    /\ \A i \in DOMAIN hist.waits : hist.waits[i] <= 300
    /\ RetriesExhausted => hist.waits = <<30, 60, 120, 240>>

C9_Witness == RetriesExhausted /\ Len(hist.waits) = 4

PermanentFailuresWritten == \E c \in Ids : store.audit[c]["failed_all_retries"] > 0

\* C10: at most 4 retry rounds run, and once the permanent-failure audit rows
\* are written no retry round is running or still to come.
C10_RetryRounds ==
    /\ Len(hist.waits) <= 4
    /\ PermanentFailuresWritten => main.pc \in {"finalize", "done"}

C10_Witness == PermanentFailuresWritten /\ Len(hist.waits) = 4

\* C11: the items still on the failed-item list when the retry rounds are over
\* each have an audit row with the fixed reason "classification failed after
\* all retries", and the run then ends with status completed, never error.
C11_FailedItemsAudited ==
    /\ main.pc = "finalize"
            => \A c \in Range(cls.api_failed) : store.audit[c]["failed_all_retries"] >= 1
    /\ (main.pc = "done" /\ PermanentFailuresWritten) => store.status # "error"
    /\ (main.pc = "done" /\ PermanentFailuresWritten /\ ~cancel_event)
            => store.status = "completed"

C11_Witness ==
    /\ main.pc = "done"
    /\ ~cancel_event
    /\ Len(hist.waits) = max_retry_rounds
    /\ store.status = "completed"
    /\ \E c \in Ids : store.audit[c]["failed_all_retries"] = 1

\* the run has ended: every item's handling is over
RunEnded == main.pc = "done"

\* C12: when the run has ended, an item the classifier decided Relevant has a
\* result row keyed by its identity and no not-relevant audit row; an item it
\* decided Discarded has a not-relevant audit row and no result row.
C12_DecisionsRecorded ==
    \A c \in Ids :
        /\ (RunEnded /\ hist.decided[c] = "relevant")
               => (c \in ResultKeys(store.results) /\ store.audit[c]["not_relevant"] = 0)
        /\ (RunEnded /\ hist.decided[c] = "discarded")
               => (c \notin ResultKeys(store.results) /\ store.audit[c]["not_relevant"] >= 1)

SameKey(r1, r2) == r1.scan_id = r2.scan_id /\ r1.dedup_key = r2.dedup_key

\* C13: the results table holds at most one row per (run, dedup key), and an
\* insert_result call for a key the run already has a row for leaves the
\* table as it was.
C13_PersistIdempotent ==
    /\ [](\A i, j \in DOMAIN results_table :
            SameKey(results_table[i], results_table[j]) => i = j)
    /\ [][\A w \in Writers :
            (writer[w].pc = "selected" /\ writer'[w].pc = "idle"
                /\ HasRow(results_table, writer[w].scan_id, writer[w].dedup_key))
            => results_table' = results_table]_vars

\* some insert_result call found its key stored already
C13_Witness == persists > Len(results_table) /\ results_table # <<>>

\* the run has ended and the cancel_scan handler's write has reached the table
CancelSettled == main.pc = "done" /\ cancel_pc = "done"

\* C14: a run one of whose check points has seen the cancellation token set
\* ends with status cancelled, not completed and not error.
C14_ObservedCancelEndsCancelled ==
    (CancelSettled /\ hist.observed) => store.status = "cancelled"

\* a step makes the classifier call of a retry round
NewRetryCall ==
    /\ main'.pc = "retry_call"
    /\ main.pc # "retry_call" \/ main'.idx # main.idx

\* C15: once the cancellation token is set, no keyword search is dispatched
\* to the sources and no classifier call is started, in the first pass or in a
\* retry round.
C15_NoNewWorkAfterCancel ==
    [][cancel_event =>
          /\ \A k \in KW : kw'[k].searched = kw[k].searched
          /\ hist'.calls_started = hist.calls_started
          /\ ~NewRetryCall]_vars

\* the requests to host h that have been sent and not yet answered
InFlightTo(h) == {c \in Callers : get[c].pc = "request" /\ get[c].host = h}

\* C16: at most 2 requests to one host are in flight at any time, whichever
\* callers and client instances make them, and no host ever has a second
\* limiter.
C16_PerHostLimit ==
    /\ \A h \in Hosts : Cardinality(InFlightTo(h)) <= HOST_CONCURRENCY
    /\ \A i, j \in DOMAIN sems : sems[i].host = sems[j].host => i = j
    /\ \A c \in Callers : get[c].pc # "idle" => get[c].sem = host_semaphores[get[c].host]

C16_Witness ==
    \E h \in Hosts :
        /\ Cardinality(InFlightTo(h)) = HOST_CONCURRENCY
        /\ \E c \in Callers : get[c].pc = "waiting" /\ get[c].host = h

\* the failures of a request the claim names
ListedFailures == {"429", "http_error", "request_error"}

AllAttemptsFailed(c) ==
    get[c].pc = "ended" /\ get[c].seen # {} /\ get[c].seen \subseteq ListedFailures

\* C17: one _get call sends at most max_retries (3) requests, and a call whose
\* every attempt failed with HTTP 429, another HTTP error or a network error,
\* in any mix, has returned None and has not raised.
C17_BoundedAttemptsNoRaise ==
    \A c \in Callers :
        /\ get[c].requests <= max_retries
        /\ AllAttemptsFailed(c) => get[c].result = "None"

C17_Witness ==
    \E c \in Callers :
        /\ AllAttemptsFailed(c)
        /\ get[c].seen = ListedFailures
        /\ get[c].requests = max_retries
        /\ get[c].result = "None"

\* the contributions of source s in a result list, in order
ItemsOf(results, s) == SelectSeq(results, LAMBDA item : item[1] = s)

\* C18: search_all (and fetch_member_all) never raises because a source's
\* function raised; the list it returns holds every contribution of the
\* sources that returned and none of a source that raised.
C18_SourceFailuresContained ==
    /\ sa.pc # "raised"
    /\ sa.pc = "returned" =>
         /\ \A s \in sa.sources :
               ItemsOf(sa.results, s) = IF src[s].outcome = "returned" THEN src[s].fetched
                                        ELSE <<>>
         /\ \A i \in DOMAIN sa.results : sa.results[i][1] \in sa.sources

C18_Witness ==
    /\ sa.pc = "returned"
    /\ \E s, t \in sa.sources :
         /\ src[s].outcome = "raised" /\ src[s].fetched # <<>>
         /\ src[t].outcome = "returned" /\ src[t].fetched # <<>>
         /\ ItemsOf(sa.results, t) = src[t].fetched

\* C19: is_procedural is true exactly when the text has fewer than 5 words
\* (debate contributions, source type hansard) or fewer than 8 words (every other
\* source type), or the stripped text starts with an administrative pattern; a
\* pattern further into the text does not count.
C19_ProceduralTest ==
    proc.pc = "done" =>
        proc.result = (\/ proc.words < (IF proc.source_type = "hansard" THEN 5 ELSE 8)
                       \/ proc.admin)

C19_Witness ==
    /\ proc.pc = "done"
    /\ proc.source_type = "hansard"
    /\ proc.words = 5
    /\ strip(proc.text) = Phrase(<<"x", "I", "beg", "to", "move">>)
    /\ ~proc.result

\* the items a classifier call is being made for
ClassifierInput ==
    {ctasks[n].item : n \in {m \in DOMAIN ctasks : ctasks[m].pc = "calling"}}
    \cup (IF main.pc = "mt_call" THEN {main.to_classify[main.idx]} ELSE {})
    \cup (IF main.pc = "retry_call" THEN {cls.api_failed[main.idx]} ELSE {})

\* the audit rows of the item are still to be written by a keyword's task
AuditPending(c) == \E k \in KW : kw[k].pc = "writing" /\ c \in Range(kw[k].new_procedural)

\* C20: an item the procedural test is true for is never on the classification
\* queue, never handed to a classifier task, never the argument of a classifier
\* call in the first pass or a retry round, and once admitted it has exactly
\* one procedural_filter audit row and no other record.
C20_ProceduralNeverClassified ==
    \A c \in cfg.procedural :
        /\ c \notin Range(reg.classify_queue)
        /\ c \notin Range(main.to_classify)
        /\ \A n \in DOMAIN ctasks : ctasks[n].item # c
        /\ c \notin ClassifierInput
        /\ c \notin Range(cls.api_failed) /\ c \notin Range(main.still_failed)
        /\ hist.routed[c] = 0 /\ hist.decided[c] = "none"
        /\ c \notin ResultKeys(store.results)
        /\ store.audit[c]["not_relevant"] = 0 /\ store.audit[c]["failed_all_retries"] = 0
        /\ (c \in Range(reg.procedural_items) /\ ~AuditPending(c))
              => store.audit[c]["procedural_filter"] = 1

C20_Witness ==
    /\ main.pc = "done"
    /\ \E c \in cfg.procedural, d \in Ids \ cfg.procedural :
         /\ store.audit[c]["procedural_filter"] = 1
         /\ c \in Range(reg.procedural_items)
         /\ hist.routed[d] > 0
    /\ hist.calls_started > 0

\* the run's configuration selects no topics and no members
NoSelection == ~cfg.selected_topics /\ cfg.target_member_ids = {}

\* C21: a run whose configuration selects no topics and no members makes no
\* keyword search, no member fetch and no classifier or summariser call and
\* stores nothing, and the step that ends it writes status error with the
\* message "No topics or member selected".
C21_EmptySelectionIsError ==
    /\ [](NoSelection =>
            /\ \A k \in KW : ~kw[k].searched /\ kw[k].pc = "pending"
            /\ hist.member_fetches = 0
            /\ hist.calls_started = 0 /\ hist.summarise_calls = 0
            /\ ctasks = <<>> /\ store.results = <<>>)
    /\ [][(NoSelection /\ main.pc # "done" /\ main'.pc = "done")
            => /\ store'.status = "error"
               /\ store'.error_message = "No topics or member selected"]_vars

C21_Witness ==
    /\ NoSelection
    /\ main.pc = "done"
    /\ store.status = "error"
    /\ store.error_message = "No topics or member selected"

\* the run's configuration selects members and no topics
MemberOnly == ~cfg.selected_topics /\ cfg.target_member_ids # {}

\* the rows a member-only run has stored or is handing to insert_result
MemberOnlyRows ==
    Range(store.results) \cup (IF main.pc = "mo_insert" THEN {main.row} ELSE {})

\* C24: a member-only run never starts a classify call, and every row it
\* stores or hands to insert_result has confidence "raw" and the id of one of
\* the requested members.
C24_MemberOnlyRaw ==
    MemberOnly =>
        /\ hist.calls_started = 0
        /\ ctasks = <<>> /\ main.pc \notin {"mt_call", "retry_call"}
        /\ \A row \in MemberOnlyRows :
              row.confidence = "raw" /\ row.member_id \in cfg.target_member_ids

C24_Witness ==
    /\ MemberOnly
    /\ cfg.target_member_ids # Members
    /\ main.pc = "mo_insert"
    /\ main.row.confidence = "raw"
    /\ main.row.member_id \in cfg.target_member_ids
    /\ hist.summarise_calls > 0

\* the tuples classify returns for a relevant and for a discarded item
IsRelevantResult(out) == out.kind = "return" /\ out.value[1] = "dict"
IsDiscardedResult(out) == out.kind = "return" /\ out.value[1] = "None"
IsClassifierAPIError(out) == out.kind = "raise"

ApiErrors == {"rate_limit", "timeout", "auth_error", "api_error"}

\* C25: every classify call makes at most 3 attempts and ends with a Relevant
\* result, a Discarded result or a ClassifierAPIError; API errors on every
\* attempt end in ClassifierAPIError; a parsed answer ends the call at once.
C25_ClassifyOutcome ==
    call.pc = "done" =>
        /\ call.out.attempts <= 3
        /\ \/ IsRelevantResult(call.out)
           \/ IsDiscardedResult(call.out)
           \/ IsClassifierAPIError(call.out)
        /\ (\A i \in 1..3 : call.resp[i] \in ApiErrors) => IsClassifierAPIError(call.out)
        /\ \A i \in 1..call.out.attempts :
              /\ call.resp[i] = "not_relevant" => (i = call.out.attempts
                                                   /\ IsDiscardedResult(call.out))
              /\ call.resp[i] = "relevant" => (i = call.out.attempts
                                               /\ IsRelevantResult(call.out))

\* C28: an answer that is not JSON is retried while attempts are left, so
\* that at most 3 are made; when the third attempt's answer is not JSON the
\* call returns Discarded with category generic, counts one internal error
\* and raises nothing.
C28_UnparsableRetried ==
    call.pc = "done" =>
        /\ call.out.attempts <= 3
        /\ \A i \in 1..2 :
              (i <= call.out.attempts /\ call.resp[i] = "bad_json") => call.out.attempts > i
        /\ (call.out.attempts = 3 /\ call.resp[3] = "bad_json") =>
              /\ IsDiscardedResult(call.out)
              /\ call.out.value[2] = "Invalid JSON response from classifier"
              /\ call.out.value[3] = "generic"
              /\ call.out.api_errors = 1

C28_Witness ==
    /\ call.pc = "done"
    /\ call.resp = <<"bad_json", "bad_json", "bad_json">>
    /\ IsDiscardedResult(call.out)
    /\ call.out.attempts = 3

\* the contributions put on the classification queue
Queued == Range(reg.classify_queue) \ {Sentinel}

\* the terminal records of contribution c: result rows, not-relevant audit
\* rows and permanent-failure audit rows
TerminalRecords(c) ==
    Cardinality({i \in DOMAIN store.results : store.results[i].dedup_key = c})
    + store.audit[c]["not_relevant"] + store.audit[c]["failed_all_retries"]

\* C23: when a topics run has ended completed, every contribution that was
\* queued for classification has exactly one terminal record (a result, a
\* not-relevant audit row or a permanent-failure audit row).
C23_OneTerminalRecord ==
    (cfg.mode = "topics" /\ main.pc = "done" /\ store.status = "completed") =>
        \A c \in Queued : TerminalRecords(c) = 1

\* contribution c waits on the classification queue or is with its
\* _classify_one task
StillQueued(c) ==
    \/ \E i \in reg.queue_head..Len(reg.classify_queue) : reg.classify_queue[i] = c
    \/ \E n \in 1..Len(ctasks) : ctasks[n].item = c /\ ctasks[n].pc # "done"

\* a result or an audit row of contribution c has been written
Recorded(c) == TerminalRecords(c) > 0 \/ store.audit[c]["procedural_filter"] > 0

\* C29: the registry changes the matched_keywords of a contribution only
\* while the contribution is still queued, and never after its result or
\* audit row has been written.
C29_KeywordsFrozenOnceClassified ==
    [][\A c \in DOMAIN reg.seen :
          (c \in DOMAIN reg'.seen /\ reg'.seen[c] # reg.seen[c]) =>
              (StillQueued(c) /\ ~Recorded(c))]_vars

\* a retry round of a topics run is under way
InRetryRounds == cfg.mode = "topics" /\ main.pc \in {"retry_sleep", "retry_call"}

\* the searches are over, the queue is drained and no _classify_one task is
\* left, so no main-pipeline classifier call is in flight
PipelineOver ==
    /\ reg.search_done
    /\ \A k \in KW : kw[k].pc = "done"
    /\ reg.queue_head > Len(reg.classify_queue)
    /\ \A n \in 1..Len(ctasks) : ctasks[n].pc = "done"

\* contribution c is or was on the failed list
MovedToFailed(c) ==
    \/ c \in Range(cls.api_failed) \cup Range(main.still_failed)
    \/ hist.routed[c] > 0

\* C27: retry rounds run only after every keyword search has finished and
\* every queued contribution has been classified or moved to the failed
\* list; no classifier call of the main pipeline is in flight during them.
C27_RetryAfterPipeline ==
    InRetryRounds =>
        /\ PipelineOver
        /\ \A c \in Queued : hist.decided[c] # "none" \/ MovedToFailed(c)

\* the classifier answers the call for the last item of a retry round in
\* which no item failed again: nothing is left for the failed list
RoundLeavesNothingFailed ==
    /\ main.pc = "retry_call"
    /\ main.idx = Len(cls.api_failed)
    /\ main.still_failed = <<>>
    /\ hist.decided[cls.api_failed[main.idx]] = "none"
    /\ hist'.decided[cls.api_failed[main.idx]] # "none"

\* the retry loop has been left for the run's completion, the outage flag cleared
BackToNormal ==
    /\ cls'.api_failed = <<>>
    /\ ~cls'.api_paused
    /\ main'.pc = "finalize"
    /\ hist'.waits = hist.waits

C22_CountersNeverDecrease ==
    [][\A k \in DOMAIN store.current_phase :
          store'.current_phase[k] >= store.current_phase[k]]_vars

\* a keyword search of the topics run is not finished yet
SearchUnfinished == \E k \in KW : kw[k].pc # "done"

\* the searches are over and, in a run that is not being cancelled, a
\* classifier call of the main pipeline is in flight
ClassifyingAfterSearch ==
    /\ reg.search_done
    /\ ~cancel_event
    /\ main.pc = "pipeline"
    /\ \E n \in 1..Len(ctasks) : ctasks[n].pc = "calling"

\* the run is in its retry rounds or past them
DrainingOrFinal == main.pc \in {"retry_sleep", "retry_call", "perm_audit", "finalize", "done"}

C30_SearchBand == SearchUnfinished => store.progress <= 60
C30_ClassifyBand == ClassifyingAfterSearch => (store.progress >= 60 /\ store.progress <= 95)
C30_DrainBand == store.progress > 95 => DrainingOrFinal
C30_FullOnlyCompleted == store.progress = 100 => store.status = "completed"

\* C30: in a topics run the reported progress is at most 60 while a keyword
\* search is unfinished, between 60 and 95 while classification goes on after
\* the searches, above 95 only in the retry rounds or the finalization, and
\* 100 only together with status completed.
C30_ProgressBands ==
    cfg.mode = "topics" =>
        /\ C30_SearchBand
        /\ C30_ClassifyBand
        /\ C30_DrainBand
        /\ C30_FullOnlyCompleted

\* C31: once the stored status of a run is completed, cancelled or error, no
\* later write changes it to a different status.
C31_TerminalStatusFinal ==
    [][store.status \in TerminalStatus => store'.status = store.status]_vars

\* C35: within one run no contribution has more than one terminal record (a
\* result, a not-relevant audit row or a permanent-failure audit row), also
\* when the cancellation token is set in the middle of a retry round.
C35_AtMostOneTerminalRecord ==
    \A c \in Ids : TerminalRecords(c) <= 1

\* C36: in every progress snapshot a topics run has written, the number of
\* unique contributions equals the number removed by the pre-filter plus the
\* number sent to the classifier.
C36_DedupSplit ==
    cfg.mode = "topics" =>
        store.current_phase.unique_after_dedup
            = store.current_phase.removed_by_prefilter
              + store.current_phase.sent_to_classifier

\* a snapshot written by a classification task while keyword searches are
\* still running, holding both a pre-filtered and a forwarded contribution
C36_Witness ==
    /\ cfg.mode = "topics"
    /\ ~reg.search_done
    /\ store.current_phase.classifier_api_errors >= 1
    /\ store.current_phase.removed_by_prefilter >= 1
    /\ store.current_phase.sent_to_classifier >= 1

\* the run classifies: a topics run or a members+topics run
ClassifyingRun == cfg.mode \in {"topics", "member_topics"}

\* the numbers a completed run reports agree: the total_relevant column, the
\* result rows stored and classified_relevant of the last snapshot
TotalsAgree ==
    /\ store.total_relevant = Len(store.results)
    /\ store.total_relevant = store.current_phase.classified_relevant

\* a call of a retry round is answered with a Relevant outcome in this step
RetryCallAnsweredRelevant ==
    /\ main.pc = "retry_call"
    /\ hist.decided[cls.api_failed[main.idx]] # "relevant"
    /\ hist'.decided[cls.api_failed[main.idx]] = "relevant"

C38_TotalsAtCompletion ==
    (ClassifyingRun /\ store.status = "completed") => TotalsAgree

\* the run's own tasks can take no further step
RunQuiescent == ~ENABLED (TopicsNext \/ MemberTopicNext \/ MemberOnlyNext \/ RetryNext)

\* C37: every started run reaches a terminal status and leaves run_scan, and
\* the classification consumer task of a topics run terminates, also when a
\* keyword search raises: a run whose tasks can take no further step has left
\* with a terminal status stored and its consumer ended.
C37_RunAndConsumerEnd ==
    RunQuiescent =>
        /\ main.pc = "done"
        /\ store.status \in TerminalStatus
        /\ cfg.mode = "topics" => consumer_pc = "done"

\* the run's half of C37 alone
C37_RunEnds ==
    RunQuiescent => (main.pc = "done" /\ store.status \in TerminalStatus)

\* C32: a run whose cancellation was accepted while it was queued never has
\* its pipeline started afterwards: no run_scan is launched for it and none of
\* its tasks begins the pipeline.
C32_CancelledQueuedNeverStarts ==
    [][\A s \in cancelled_queued :
          /\ Len(tasks'[s]) = Len(tasks[s])
          /\ \A i \in 1..Len(tasks[s]) :
                 tasks'[s][i].pc = "inner" => tasks[s][i].pc = "inner"]_vars

\* the start request r returns in this step
StartRequestReturns(r) == req[r].pc = "closing" /\ req'[r].pc = "done"

\* C34: a start request leaves its run in exactly one of two states when it
\* returns: its pipeline has been started, or it has been marked queued; never
\* neither and never both.
C34_StartedXorQueued ==
    [][\A r \in Requests :
          StartRequestReturns(r) =>
              (tasks'[req[r].scan] # <<>>) # WasMarkedQueued(req[r].scan)]_vars

\* the two ways C34 fails, each on its own
C34_NeverNeither ==
    [][\A r \in Requests :
          StartRequestReturns(r) =>
              (tasks'[req[r].scan] # <<>> \/ WasMarkedQueued(req[r].scan))]_vars

C34_NeverBoth ==
    [][\A r \in Requests :
          StartRequestReturns(r) =>
              ~(tasks'[req[r].scan] # <<>> /\ WasMarkedQueued(req[r].scan))]_vars

====
